---- MODULE Spec2Model ----
(***************************************************************************)
(* Verification model of the snowsword-wiki retrieval system.              *)
(*                                                                         *)
(* The module holds several specifications over one set of variables, one  *)
(* per subsystem:                                                          *)
(*   SpecCache    the in-memory answer cache of app.py                     *)
(*   SpecCacheMT  the same cache functions run step by step by threads      *)
(*   SpecChunks   the segmenter (create_chunks)                            *)
(*   SpecSources  MultiSourceIndexer.add_source over several sources        *)
(*   SpecKeywords the keyword index build (_build_keyword_index)            *)
(*   SpecRetrieve the lexical retriever (TextRetriever.retrieve)           *)
(*   SpecSession  a sequence of retrieve calls on one loaded retriever      *)
(*   SpecIndex    the embedding index: build_index, load_index,            *)
(*                get_zhipu_embedding, load_compressed_index               *)
(*   SpecServe    query serving: ExpertSystemV2.retrieve / get_context /    *)
(*                answer, ExpertAIV2.semantic_search / build_context        *)
(*   SpecApi      the HTTP handlers of api.py: /query, /search               *)
(*   SpecSearch   vector search: ZhipuEmbeddingRetriever.search,              *)
(*                LightweightRetriever.search, SemanticRetrieverV2.search     *)
(*   SpecFusion   hybrid_search of the embedding and TF-IDF retrievers        *)
(*   SpecStore    the split and compressed files of the data directory        *)
(*   SpecApiMode  the API-mode actions of app.py, one script run each         *)
(* Every specification leaves the variables of the other subsystems at     *)
(* their initial value.                                                    *)
(***************************************************************************)
EXTENDS Integers, Sequences, FiniteSets, TLC

VARIABLES
    \* ---- app.py answer cache ----
    answer_cache,   \* _answer_cache: dict in insertion order, a sequence of [key, data, ts]
    now,            \* time.time(), in whole ticks
    cache_ret,      \* the last cache operation and what it returned
    cache_live,     \* history: per key, the last stored (data, ts) not since cleared or evicted for capacity
    \* ---- segmenter ----
    chunk_in,       \* the chapters handed to create_chunks: a sequence of [title, content]
    chunk_out,      \* the chunks create_chunks returned
    chunk_seed,     \* history: per returned chunk, the length of the overlap text at its head
    chunk_pc,       \* "ready" before the call, "done" after it
    \* ---- TextRetriever ----
    r_chunks,       \* self.chunks
    r_index,        \* self.keyword_index: word -> list of chunk ids
    r_call,         \* the last retrieve call: [query, top_k] (top_k = 0: none yet)
    r_results,      \* what it returned: a sequence of [id, score]
    r_seen,         \* history of a session: [call, results, other]: its first call, what
                    \* that returned, and whether another call was made since
    \* ---- ZhipuEmbeddingRetriever and the index files ----
    z_embeddings,   \* self.embeddings: [exists, rows, dim] (exists = FALSE: None)
    z_paragraphs,   \* self.paragraphs
    z_metadata,     \* self.metadata
    z_dimension,    \* self.dimension (-1: None)
    d_emb,          \* zhipu_index/embeddings.npy: [exists, rows, dim]
    d_meta,         \* zhipu_index/metadata.json: [exists, paragraphs, metadata, dimension, model]
    c_emb,          \* zhipu_index_embeddings.npz: [exists, rows, dim]
    c_texts,        \* zhipu_index_texts.json.gz: [exists, list]
    c_meta,         \* zhipu_index_meta.json.gz: [exists, list]
    z_ret,          \* the last index operation and its outcome
    z_model,        \* self.model
    d_saved,        \* history: the shape of the in-memory index build_index saved into the
                    \* files now on disk ([valid, rows, dim, paragraphs, metadata])
    \* ---- ExpertSystemV2 / ExpertAIV2 ----
    s_use_semantic, \* self.use_semantic (TRUE: self.retriever is a ZhipuEmbeddingRetriever)
    s_paragraphs,   \* the loaded paragraphs: a sequence of [content, chapter]
    s_ret,          \* the last call and its outcome
    s_env,          \* what the system finds when it starts: [key, zhipu_index, load]
    s_retriever,    \* self.retriever: "none" (not initialised), "zhipu" or "tfidf"
    \* ---- threads running the cache functions ----
    th,             \* per thread: the function it runs, its position and its locals
    \* ---- MultiSourceIndexer ----
    ms_chunks,      \* self.chunks
    ms_sources,     \* self.sources: the source ids added, in order
    \* ---- keyword index builds ----
    k_hist,         \* history: [builds, index, chunks]: the number of builds run (up to 2),
                    \* the index the build before the last returned, the chunks before the last build
    \* ---- hybrid_search of the embedding and TF-IDF retrievers ----
    f_retriever,    \* the retriever: [class, how, paragraphs, metadata, scores]
    f_ret,          \* the last hybrid_search call and what it returned
    \* ---- the data directory ----
    fs_files,       \* the files of data_dir: name -> content (a sequence of bytes)
    fs_ret,         \* the last build or load and the file that was split
    \* ---- app.py in API mode ----
    a_ret           \* the last request and its JSON response

cacheVars == <<answer_cache, now, cache_ret, cache_live>>
chunkVars == <<chunk_in, chunk_out, chunk_seed, chunk_pc>>
retrVars == <<r_chunks, r_index, r_call, r_results, r_seen>>
indexVars == <<z_embeddings, z_paragraphs, z_metadata, z_dimension,
               d_emb, d_meta, c_emb, c_texts, c_meta, z_ret, d_saved, z_model>>
serveVars == <<s_use_semantic, s_paragraphs, s_ret, s_env, s_retriever>>
mtVars == <<th>>
msVars == <<ms_chunks, ms_sources>>
kwVars == <<k_hist>>
fusionVars == <<f_retriever, f_ret>>
storeVars == <<fs_files, fs_ret>>
apiVars == <<a_ret>>

vars == <<answer_cache, now, cache_ret, cache_live,
          chunk_in, chunk_out, chunk_seed, chunk_pc,
          r_chunks, r_index, r_call, r_results, r_seen,
          z_embeddings, z_paragraphs, z_metadata, z_dimension,
          d_emb, d_meta, c_emb, c_texts, c_meta, z_ret, d_saved, z_model,
          s_use_semantic, s_paragraphs, s_ret, s_env, s_retriever, th, ms_chunks, ms_sources, k_hist,
          f_retriever, f_ret, fs_files, fs_ret, a_ret>>

\* what the operations of one subsystem leave alone
notCache == <<chunkVars, retrVars, indexVars, serveVars, mtVars, msVars, kwVars, fusionVars, storeVars, apiVars>>
notChunk == <<cacheVars, retrVars, indexVars, serveVars, mtVars, msVars, kwVars, fusionVars, storeVars, apiVars>>
notRetr == <<cacheVars, chunkVars, indexVars, serveVars, mtVars, msVars, kwVars, fusionVars, storeVars, apiVars>>
notIndex == <<cacheVars, chunkVars, retrVars, serveVars, mtVars, msVars, kwVars, fusionVars, storeVars, apiVars>>
notServe == <<cacheVars, chunkVars, retrVars, indexVars, mtVars, msVars, kwVars, fusionVars, storeVars, apiVars>>
notMT == <<cache_ret, cache_live, chunkVars, retrVars, indexVars, serveVars, msVars, kwVars, fusionVars, storeVars, apiVars>>
notKw == <<cacheVars, chunkVars, indexVars, serveVars, mtVars, msVars, fusionVars, storeVars, apiVars>>
notFusion == <<cacheVars, chunkVars, retrVars, indexVars, serveVars, mtVars, msVars, kwVars, storeVars, apiVars>>
notStore == <<cacheVars, chunkVars, retrVars, indexVars, serveVars, mtVars, msVars, kwVars, fusionVars, apiVars>>
notApiMode == <<chunkVars, retrVars, indexVars, serveVars, mtVars, msVars, kwVars, fusionVars, storeVars>>
notMS == <<cacheVars, chunkVars, retrVars, indexVars, serveVars, mtVars, kwVars, fusionVars, storeVars, apiVars>>

None == "None"

(***************************************************************************)
(* Generic sequence helpers                                                *)
(***************************************************************************)
Range(s) == {s[i] : i \in 1..Len(s)}

Min(a, b) == IF a <= b THEN a ELSE b

(***************************************************************************)
(* app.py: answer cache                                                    *)
(***************************************************************************)

\* _cache_max_size = 100 in app.py:32; scaled down so that the capacity
\* branch is reachable with the keys of the model.
cache_max_size == 2

\* _cache_ttl = 3600 (seconds) in app.py:33; scaled down to clock ticks.
cache_ttl == 2

\* The clock stops here.
MaxTime == 4

\* The (query, temp) pairs the requests carry; temperature in tenths.
\* Two pairs share the query and differ in temperature.
Requests == {<<"q1", 3>>, <<"q1", 7>>, <<"q2", 7>>}
Answers == {"a1", "a2"}

\* _get_cache_key: md5 of "query:temp"; the digest is modelled by the pair
\* it is computed from (distinct pairs give distinct f-strings).
get_cache_key(query, temp) == <<query, temp>>

CacheKeys == {get_cache_key(r[1], r[2]) : r \in Requests}

CacheHas(c, k) == \E i \in 1..Len(c) : c[i].key = k

CacheAt(c, k) == c[CHOOSE i \in 1..Len(c) : c[i].key = k]

\* del _answer_cache[k]
CacheDel(c, k) == SelectSeq(c, LAMBDA e : e.key # k)

\* _answer_cache[k] = (data, ts): an existing key keeps its position
CachePut(c, k, data, ts) ==
    IF CacheHas(c, k)
    THEN [i \in 1..Len(c) |-> IF c[i].key = k THEN [key |-> k, data |-> data, ts |-> ts] ELSE c[i]]
    ELSE Append(c, [key |-> k, data |-> data, ts |-> ts])

\* app.py:44  time.time() - timestamp < _cache_ttl
Fresh_mutant(ts, t) == t - ts <= cache_ttl
Fresh(ts, t) == t - ts < cache_ttl

\* app.py:55  now - ts > _cache_ttl
Expired(ts, t) == t - ts > cache_ttl

\* app.py:59  len(_answer_cache) >= _cache_max_size
OverCapacity_mutant(c) == Len(c) > cache_max_size
OverCapacity(c) == Len(c) >= cache_max_size

\* app.py:60  min(_answer_cache.keys(), key=lambda k: _answer_cache[k][1]):
\* the first key, in dict order, among those with the least timestamp.
OldestKey(c) ==
    LET i == CHOOSE i \in 1..Len(c) :
                 /\ \A j \in 1..Len(c) : c[i].ts <= c[j].ts
                 /\ \A j \in 1..(i - 1) : c[j].ts > c[i].ts
    IN c[i].key

\* _get_cached_answer: [ret, cache]
get_cached_answer(c, query, temp, t) ==
    LET key == get_cache_key(query, temp) IN
    IF CacheHas(c, key)
    THEN IF Fresh(CacheAt(c, key).ts, t)
         THEN [ret |-> CacheAt(c, key).data, cache |-> c]
         ELSE [ret |-> None, cache |-> CacheDel(c, key)]
    ELSE [ret |-> None, cache |-> c]

\* _set_cached_answer, lines 55-57: the cache without the expired entries
DropExpired(c, t) == SelectSeq(c, LAMBDA e : ~Expired(e.ts, t))

\* _set_cached_answer, lines 59-61: [cache, evicted]
EvictOldest(c) ==
    IF OverCapacity(c)
    THEN [cache |-> CacheDel(c, OldestKey(c)), evicted |-> {OldestKey(c)}]
    ELSE [cache |-> c, evicted |-> {}]

\* _set_cached_answer: [cache, evicted]
set_cached_answer(c, query, temp, answer, t) ==
    LET key == get_cache_key(query, temp)
        ev  == EvictOldest(DropExpired(c, t))
    IN [cache |-> CachePut(ev.cache, key, answer, t), evicted |-> ev.evicted]

(***************************************************************************)
(* src/unified_indexer.py, src/multi_source_indexer.py: create_chunks      *)
(*                                                                         *)
(* A text is a sequence of one-character strings.  "." stands for the      *)
(* sentence-ending punctuation of the pattern (one of the four full-width  *)
(* marks), "\n" for the newline, which the pattern also treats as a        *)
(* delimiter and which str.strip() removes as whitespace.                  *)
(***************************************************************************)

\* self.chunk_size (default 800) and self.overlap (default 100), scaled down.
chunk_size == 3
overlap == 1

\* Longest chapter body drawn.
MaxTextLen == 6

TextChars == {"a", "b", ".", "\n"}

Texts == UNION {[1..n -> TextChars] : n \in 0..MaxTextLen}

IsSpace(ch) == ch = "\n"

\* the character class of re.split(r'([...\n]+)', content)
IsDelim(ch) == ch \in {".", "\n"}

RECURSIVE LStrip(_)
LStrip(s) == IF s # <<>> /\ IsSpace(Head(s)) THEN LStrip(Tail(s)) ELSE s

RECURSIVE RStrip(_)
RStrip(s) ==
    IF s # <<>> /\ IsSpace(s[Len(s)]) THEN RStrip(SubSeq(s, 1, Len(s) - 1)) ELSE s

\* str.strip()
Strip(s) == RStrip(LStrip(s))

\* ''.join(parts)
RECURSIVE Join(_)
Join(parts) == IF parts = <<>> THEN <<>> ELSE Head(parts) \o Join(Tail(parts))

\* re.split with a capturing group: text, delimiter run, text, ..., text;
\* the texts at both ends may be empty.
RECURSIVE SplitFrom(_, _, _, _)
SplitFrom(s, i, cur, inDelim) ==
    IF i > Len(s)
    THEN IF inDelim THEN <<cur, <<>>>> ELSE <<cur>>
    ELSE IF IsDelim(s[i]) = inDelim
         THEN SplitFrom(s, i + 1, Append(cur, s[i]), inDelim)
         ELSE <<cur>> \o SplitFrom(s, i + 1, <<s[i]>>, ~inDelim)

re_split(s) == SplitFrom(s, 1, <<>>, FALSE)

\* sentences = [s.strip() for s in sentences if s.strip()]
Sentences(content) ==
    LET parts == re_split(content)
        stripped == [i \in 1..Len(parts) |-> Strip(parts[i])]
    IN SelectSeq(stripped, LAMBDA x : x # <<>>)

\* s[-n:] for n >= 1
LastChars(s, n) == SubSeq(s, Len(s) - Min(n, Len(s)) + 1, Len(s))

\* current_chunk[-2:]
LastTwo(parts) == SubSeq(parts, Len(parts) - 1, Len(parts))

\* overlap_text, line 104
OverlapText(current_chunk) ==
    IF Len(current_chunk) >= 2
    THEN Join(LastTwo(current_chunk))
    ELSE LastChars(Join(current_chunk), overlap)

\* the chunk dict appended at lines 96-102 and 113-119; the id "chunk_<n>"
\* is modelled by the number n
MakeChunk(n, title, chapter_idx, chunk_text) ==
    [id |-> n, chapter |-> title, content |-> chunk_text,
     char_count |-> Len(chunk_text), chapter_idx |-> chapter_idx]

\* the loop `for i in range(0, len(sentences), 2)` of one chapter, from the
\* (1-based) position i on, followed by the emission of the last chunk.
\* acc = [chunks, seeds]; seed is the length of the overlap text that heads
\* current_chunk.
RECURSIVE ChunkLoop(_, _, _, _, _, _, _, _)
ChunkLoop(sents, i, current_chunk, current_size, seed, title, chapter_idx, acc) ==
    IF i > Len(sents)
    THEN IF current_chunk # <<>>
         THEN [chunks |-> Append(acc.chunks,
                                 MakeChunk(Len(acc.chunks), title, chapter_idx, Join(current_chunk))),
               seeds |-> Append(acc.seeds, seed)]
         ELSE acc
    ELSE LET sentence == sents[i] IN
         IF current_size + Len(sentence) > chunk_size /\ current_chunk # <<>>
         THEN LET chunk_text == Join(current_chunk)
                  overlap_text == OverlapText(current_chunk)
              IN ChunkLoop(sents, i + 2, <<overlap_text, sentence>>,
                           Len(overlap_text) + Len(sentence), Len(overlap_text),
                           title, chapter_idx,
                           [chunks |-> Append(acc.chunks,
                                              MakeChunk(Len(acc.chunks), title, chapter_idx, chunk_text)),
                            seeds |-> Append(acc.seeds, seed)])
         ELSE ChunkLoop(sents, i + 2, Append(current_chunk, sentence),
                        current_size + Len(sentence), seed, title, chapter_idx, acc)

\* the body of `for chapter_idx, (chapter_title, chapter_content) in enumerate(chapters)`
ChapterChunks(chapter_idx, chapter, acc) ==
    LET content == Strip(chapter.content) IN
    IF content = <<>>
    THEN acc
    ELSE ChunkLoop(Sentences(content), 1, <<>>, 0, 0, chapter.title, chapter_idx, acc)

\* create_chunks over the chapters extract_chapters found: [chunks, seeds]
RECURSIVE ChaptersFrom(_, _, _)
ChaptersFrom(chapters, idx, acc) ==
    IF idx > Len(chapters)
    THEN acc
    ELSE ChaptersFrom(chapters, idx + 1, ChapterChunks(idx - 1, chapters[idx], acc))

create_chunks(chapters) == ChaptersFrom(chapters, 1, [chunks |-> <<>>, seeds |-> <<>>])

ChunkIdle ==
    /\ chunk_in = <<>>
    /\ chunk_out = <<>>
    /\ chunk_seed = <<>>
    /\ chunk_pc = "idle"

\* a text of one chapter is about to be segmented
ChunkStart ==
    /\ chunk_in \in {<<[title |-> "ch1", content |-> t]>> : t \in Texts}
    /\ chunk_out = <<>>
    /\ chunk_seed = <<>>
    /\ chunk_pc = "ready"

CreateChunks ==
    /\ chunk_pc = "ready"
    /\ chunk_out' = create_chunks(chunk_in).chunks
    /\ chunk_seed' = create_chunks(chunk_in).seeds
    /\ chunk_pc' = "done"
    /\ UNCHANGED chunk_in
    /\ UNCHANGED notChunk

(***************************************************************************)
(* src/multi_source_indexer.py: MultiSourceIndexer.create_chunks,          *)
(* add_source.  The chunk loop is the one of UnifiedIndexer; the id of a    *)
(* chunk is counted from the number of chunks the indexer already holds.   *)
(***************************************************************************)

\* Most add_source calls on one indexer.
MaxSources == 3

\* the texts of the source files, each of one section
SourceTexts ==
    {<<>>,
     <<"a">>,
     <<"a", ".", "b">>,
     <<"a", "a", ".", "b", "b">>,
     <<"a", "a", ".", "b", "b", ".", "a", "b">>,
     <<"a", "b", "a", ".", "b", "a", "b", ".", "a", "a", "a", ".", "b">>}

\* multi_source_indexer.py:103  base_chunk_id = len(self.chunks)
base_chunk_id_mutant(chunks) == 0
base_chunk_id(chunks) == Len(chunks)

\* MultiSourceIndexer.create_chunks(text, source_name, source_id) for a
\* text of one section
ms_create_chunks(chunks, text, source_id) ==
    LET made == create_chunks(<<[title |-> "s1", content |-> text]>>).chunks
        base == base_chunk_id(chunks)
    IN [i \in 1..Len(made) |->
           [id |-> base + made[i].id, section |-> made[i].chapter,
            content |-> made[i].content, char_count |-> made[i].char_count,
            section_idx |-> made[i].chapter_idx, source_id |-> source_id]]

SourcesIdle ==
    /\ ms_chunks = <<>>
    /\ ms_sources = <<>>

\* MultiSourceIndexer.add_source(text_path, source_name, source_id); the
\* k-th call adds source k
AddSource ==
    \E text \in SourceTexts :
        /\ Len(ms_sources) < MaxSources
        /\ ms_chunks' = ms_chunks \o ms_create_chunks(ms_chunks, text, Len(ms_sources) + 1)
        /\ ms_sources' = Append(ms_sources, Len(ms_sources) + 1)
        /\ UNCHANGED notMS

(***************************************************************************)
(* src/retriever.py: TextRetriever                                         *)
(*                                                                         *)
(* A text (query, chunk content, chapter title) is the sequence of words   *)
(* jieba.lcut cuts it into; `x in text` for a word x is membership, for a  *)
(* whole query it is occurrence as a contiguous run of words.              *)
(***************************************************************************)

\* Most chunks a retriever holds, longest query in words, largest top_k.
MaxChunks == 2
MaxQueryLen == 2
MaxTopK == 3

\* "tower": an ordinary word; "xu": one of the important_names;
\* "mei": a two-character stop word.
Vocab == {"tower", "xu", "mei"}

\* the stop words of extract_keywords / _build_keyword_index that have two
\* characters (the one-character ones never pass len(word) >= 2)
StopWords == {"mei"}

\* important_names, lines 176-181, restricted to the vocabulary
ImportantNames == <<"xu">>

ChunkContents == {<<"tower">>, <<"xu">>, <<"xu", "tower">>, <<"mei">>}
ChunkTitles == {<<"one">>, <<"tower">>}

RetrQueries == UNION {[1..n -> Vocab] : n \in 0..MaxQueryLen}

\* chunk i (1-based position) carries the id "chunk_<i-1>", modelled as i - 1
ChunkLists ==
    UNION {{[i \in 1..n |-> [id |-> i - 1, chapter |-> t[i], content |-> c[i]]] :
                c \in [1..n -> ChunkContents], t \in [1..n -> ChunkTitles]} :
           n \in 0..MaxChunks}

\* word in text
WordIn(w, text) == w \in Range(text)

\* query in text, both strings
SubstringIn(q, text) ==
    \E k \in 0..(Len(text) - Len(q)) : SubSeq(text, k + 1, k + Len(q)) = q

\* the lists of the elements of a set, in every order: list(set(...))
ListsOf(S) == {l \in [1..Cardinality(S) -> S] : Range(l) = S}

\* _build_keyword_index: the mappings it can return; the order of each list
\* is the iteration order of a set of strings
IndexedWords(chunks) ==
    {w \in Vocab : w \notin StopWords /\ \E i \in 1..Len(chunks) : WordIn(w, chunks[i].content)}

\* index[word] after the loop over the chunks: the id of a chunk once for
\* every occurrence of the word in its content
RECURSIVE Appended(_, _)
Appended(chunks, w) ==
    IF chunks = <<>>
    THEN <<>>
    ELSE LET chunk == chunks[Len(chunks)]
             hits == SelectSeq(chunk.content, LAMBDA x : x = w)
         IN Appended(SubSeq(chunks, 1, Len(chunks) - 1), w) \o [i \in 1..Len(hits) |-> chunk.id]

\* index[word] = list(set(index[word]))
Dedupe_mutant(l) == {l}
Dedupe(l) == ListsOf(Range(l))

build_keyword_index(chunks) ==
    {idx \in [IndexedWords(chunks) -> UNION {Dedupe(Appended(chunks, w)) : w \in IndexedWords(chunks)}] :
         \A w \in IndexedWords(chunks) : idx[w] \in Dedupe(Appended(chunks, w))}

\* self.chunks after _build_keyword_index: the loop reads chunk['content']
\* and chunk['id'] and assigns neither
chunks_after_build_mutant(chunks) == [i \in 1..Len(chunks) |-> [chunks[i] EXCEPT !.content = Tail(@)]]
chunks_after_build(chunks) == chunks

\* the empty dict
EmptyIndex == [w \in {} |-> <<>>]

\* extract_keywords
extract_keywords(query) ==
    LET keywords == SelectSeq(query, LAMBDA w : w \notin StopWords) IN
    IF keywords = <<>> THEN query ELSE keywords

\* Counter: a sequence of [id, score] in insertion order
CounterHas(cs, id) == \E i \in 1..Len(cs) : cs[i].id = id

\* chunk_scores[id] += n
Bump(cs, id, n) ==
    IF CounterHas(cs, id)
    THEN [i \in 1..Len(cs) |-> IF cs[i].id = id THEN [id |-> id, score |-> cs[i].score + n] ELSE cs[i]]
    ELSE Append(cs, [id |-> id, score |-> n])

\* lines 158-160: for chunk_id in self.keyword_index[keyword]: += 3
RECURSIVE BumpIndexed(_, _)
BumpIndexed(cs, ids) ==
    IF ids = <<>> THEN cs ELSE BumpIndexed(Bump(cs, Head(ids), 3), Tail(ids))

\* lines 163-173: for chunk in self.chunks: content += 2, chapter += 5
RECURSIVE BumpMatches(_, _, _, _)
BumpMatches(cs, chunks, i, keyword) ==
    IF i > Len(chunks)
    THEN cs
    ELSE LET c1 == IF WordIn(keyword, chunks[i].content) THEN Bump(cs, chunks[i].id, 2) ELSE cs
             c2 == IF WordIn(keyword, chunks[i].chapter) THEN Bump(c1, chunks[i].id, 5) ELSE c1
         IN BumpMatches(c2, chunks, i + 1, keyword)

\* lines 156-173: for keyword in keywords
RECURSIVE ScoreKeywords(_, _, _, _)
ScoreKeywords(cs, chunks, index, keywords) ==
    IF keywords = <<>>
    THEN cs
    ELSE LET kw == Head(keywords)
             c1 == IF kw \in DOMAIN index THEN BumpIndexed(cs, index[kw]) ELSE cs
         IN ScoreKeywords(BumpMatches(c1, chunks, 1, kw), chunks, index, Tail(keywords))

\* lines 185-187: for chunk in self.chunks: += 4
RECURSIVE BumpName(_, _, _, _)
BumpName(cs, chunks, i, name) ==
    IF i > Len(chunks)
    THEN cs
    ELSE BumpName(IF WordIn(name, chunks[i].content) \/ WordIn(name, chunks[i].chapter)
                  THEN Bump(cs, chunks[i].id, 4) ELSE cs,
                  chunks, i + 1, name)

\* lines 183-187: for name in important_names
RECURSIVE ScoreNames(_, _, _, _)
ScoreNames(cs, chunks, names, query) ==
    IF names = <<>>
    THEN cs
    ELSE ScoreNames(IF WordIn(Head(names), query) THEN BumpName(cs, chunks, 1, Head(names)) ELSE cs,
                    chunks, Tail(names), query)

\* lines 190-193: the whole query occurs in the content: += 10
ScoreExact_mutant(cs, chunks, i, query) == cs
RECURSIVE ScoreExact(_, _, _, _)
ScoreExact(cs, chunks, i, query) ==
    IF i > Len(chunks)
    THEN cs
    ELSE ScoreExact(IF SubstringIn(query, chunks[i].content) THEN Bump(cs, chunks[i].id, 10) ELSE cs,
                    chunks, i + 1, query)

\* Counter.most_common(n): sorted by score, highest first, the sort being
\* stable on the Counter's insertion order; the first n of them.
\* Rank(cs, i) is the position of entry i in that order.
Rank(cs, i) ==
    1 + Cardinality({j \in 1..Len(cs) :
                        \/ cs[j].score > cs[i].score
                        \/ cs[j].score = cs[i].score /\ j < i})

most_common(cs, n) ==
    LET sorted == [r \in 1..Len(cs) |-> cs[CHOOSE i \in 1..Len(cs) : Rank(cs, i) = r]]
    IN SubSeq(sorted, 1, Min(n, Len(cs)))

\* retrieve: the [id, score] of the chunks returned, in order
retrieve(chunks, index, query, top_k) ==
    IF chunks = <<>>
    THEN <<>>
    ELSE LET keywords == extract_keywords(query) IN
         IF keywords = <<>>
         THEN <<>>
         ELSE LET c1 == ScoreKeywords(<<>>, chunks, index, keywords)
                  c2 == ScoreNames(c1, chunks, ImportantNames, query)
                  c3 == ScoreExact(c2, chunks, 1, query)
                  top == most_common(c3, top_k)
              IN SelectSeq(top, LAMBDA e : \E i \in 1..Len(chunks) : chunks[i].id = e.id)

NoCall == [query |-> <<>>, top_k |-> 0]

NoSeen == [call |-> NoCall, results |-> <<>>, other |-> FALSE]

\* lines 157-160: "if keyword in self.keyword_index" and the iteration over
\* self.keyword_index[keyword] read the index
index_after_retrieve_mutant(index, keywords) ==
    [w \in DOMAIN index \cup Range(keywords) |-> IF w \in DOMAIN index THEN index[w] ELSE <<>>]
index_after_retrieve(index, keywords) == index

RetrIdle ==
    /\ r_chunks = <<>>
    /\ r_index = EmptyIndex
    /\ r_call = NoCall
    /\ r_results = <<>>
    /\ r_seen = NoSeen

\* after __init__: the chunks are loaded; the keyword index is either the
\* empty dict (_load_data without an index file) or the one
\* _build_keyword_index built (_build_index)
RetrStart ==
    /\ r_chunks \in ChunkLists
    /\ r_index \in {EmptyIndex} \cup build_keyword_index(r_chunks)
    /\ r_call = NoCall
    /\ r_results = <<>>
    /\ r_seen = NoSeen

Retrieve ==
    \E query \in RetrQueries, top_k \in 1..MaxTopK :
        /\ r_results' = retrieve(r_chunks, r_index, query, top_k)
        /\ r_call' = [query |-> query, top_k |-> top_k]
        /\ r_index' = index_after_retrieve(r_index, extract_keywords(query))
        /\ UNCHANGED <<r_chunks, r_seen>>
        /\ UNCHANGED notRetr

\* the calls of a serving session
SessionQueries == {<<"tower">>, <<"xu">>, <<"xu", "tower">>}
SessionTopKs == {1, 2}

\* retrieve called in a session whose first call and result are remembered
RetrieveInSession ==
    \E query \in SessionQueries, top_k \in SessionTopKs :
        LET call == [query |-> query, top_k |-> top_k]
            results == retrieve(r_chunks, r_index, query, top_k)
        IN
        /\ r_results' = results
        /\ r_call' = call
        /\ r_index' = index_after_retrieve(r_index, extract_keywords(query))
        /\ r_seen' = IF r_seen.call = NoCall
                      THEN [call |-> call, results |-> results, other |-> FALSE]
                      ELSE [r_seen EXCEPT !.other = r_seen.other \/ call # r_seen.call]
        /\ UNCHANGED r_chunks
        /\ UNCHANGED notRetr

\* Most chunks of an indexer whose keyword index is built.
MaxKwChunks == 2

KwContents == {<<"tower">>, <<"tower", "tower">>, <<"xu", "tower">>, <<"mei", "xu", "xu">>}

KwChunkLists ==
    UNION {{[i \in 1..n |-> [id |-> i - 1, chapter |-> <<"one">>, content |-> c[i]]] :
                c \in [1..n -> KwContents]} :
           n \in 0..MaxKwChunks}

NoBuild == [builds |-> 0, index |-> EmptyIndex, chunks |-> <<>>]

KeywordsIdle == k_hist = NoBuild

\* an indexer holding chunks, no keyword index built yet
KeywordsStart ==
    /\ r_chunks \in KwChunkLists
    /\ r_index = EmptyIndex
    /\ r_call = NoCall
    /\ r_results = <<>>
    /\ r_seen = NoSeen
    /\ k_hist = NoBuild

\* self.keyword_index = self._build_keyword_index()
BuildKeywordIndex ==
    /\ r_index' \in build_keyword_index(r_chunks)
    /\ r_chunks' = chunks_after_build(r_chunks)
    /\ k_hist' = [builds |-> Min(k_hist.builds + 1, 2), index |-> r_index, chunks |-> r_chunks]
    /\ UNCHANGED <<r_call, r_results, r_seen>>
    /\ UNCHANGED notKw

(***************************************************************************)
(* src/zhipu_retriever.py: get_zhipu_embedding, ZhipuEmbeddingRetriever    *)
(* src/compressed_index_loader.py: load_compressed_index                   *)
(*                                                                         *)
(* A paragraph text is a number; Emb(t) is the vector the provider         *)
(* computes for text t.  A matrix is its sequence of rows and its row      *)
(* width.                                                                  *)
(***************************************************************************)

\* zhipu_retriever.py:34
batch_size == 8

\* Most entries of a compressed file found on disk.
MaxFile == 1

\* the numbers of paragraphs handed to build_index: none, one, two, a full
\* batch, a full batch and one more
BuildSizes == {0, 1, 2, batch_size, batch_size + 1}

\* the models a retriever is constructed with (zhipu_retriever.py:84)
Models == {"embedding-2", "embedding-3"}

\* The width of the provider's vectors.
EmbDim == 3

\* the width of the vectors of a model (1024 and 2048, scaled down)
Dimension(model) == IF model = "embedding-2" THEN EmbDim ELSE EmbDim + 1

Emb(t) == <<"emb", t>>

\* the paragraphs argument of build_index
Paras(n) == [i \in 1..n |-> [content |-> i, chapter |-> "ch", chapter_idx |-> 0, paragraph_idx |-> i - 1]]

NoMatrix == [exists |-> FALSE, rows |-> <<>>, dim |-> 0]
Matrix(rows, dim) == [exists |-> TRUE, rows |-> rows, dim |-> dim]

\* metadata.json; parses: json.load reads it (a file whose write stopped half
\* way exists and does not parse)
NoMetaFile == [exists |-> FALSE, parses |-> FALSE, paragraphs |-> <<>>, metadata |-> <<>>,
               dimension |-> 0, model |-> ""]
TruncatedMetaFile == [exists |-> TRUE, parses |-> FALSE, paragraphs |-> <<>>, metadata |-> <<>>,
                      dimension |-> 0, model |-> ""]
NoList == [exists |-> FALSE, list |-> <<>>]
ListFile(l) == [exists |-> TRUE, list |-> l]

NoShape == [valid |-> FALSE, rows |-> 0, dim |-> 0, paragraphs |-> 0, metadata |-> 0]

\* the orders in which the provider may list the n items of a response
Orders(n) ==
    {[j \in 1..n |-> j], [j \in 1..n |-> n + 1 - j], [j \in 1..n |-> (j % n) + 1]}

\* what the provider does with one request
Responses(n) ==
    {[kind |-> "ok", order |-> o] : o \in Orders(n)}
        \cup {[kind |-> k, order |-> <<>>] : k \in {"request_error", "no_data"}}

\* number of requests for n texts: range(0, len(texts), batch_size)
BatchCount(n) == (n + batch_size - 1) \div batch_size

\* texts[i:i+batch_size] of the k-th request
Batch(texts, k) == SubSeq(texts, (k - 1) * batch_size + 1, Min(k * batch_size, Len(texts)))

\* what the provider does with each request of a call for n texts, from
\* request k on
RECURSIVE RunsFrom(_, _)
RunsFrom(n, k) ==
    IF k > BatchCount(n)
    THEN {<<>>}
    ELSE {<<r>> \o rest : r \in Responses(Min(batch_size, n - (k - 1) * batch_size)),
                          rest \in RunsFrom(n, k + 1)}

ProviderRuns(n) == RunsFrom(n, 1)

\* data["data"]: the items of a response, listed in the provider's order
ResponseData(batch, order) ==
    [j \in 1..Len(batch) |-> [index |-> order[j] - 1, embedding |-> Emb(batch[order[j]])]]

\* sorted(data["data"], key=lambda x: x["index"])
SortByIndex_mutant(items) == items
SortByIndex(items) ==
    [j \in 1..Len(items) |-> items[CHOOSE i \in 1..Len(items) : items[i].index = j - 1]]

\* the loop of get_zhipu_embedding from request k on:
\* [raised, embeddings, requests]
RECURSIVE EmbedFrom(_, _, _, _, _)
EmbedFrom(texts, k, run, all_embeddings, requests) ==
    IF k > BatchCount(Len(texts))
    THEN [raised |-> FALSE, embeddings |-> all_embeddings, requests |-> requests]
    ELSE LET batch == Batch(texts, k) IN
         IF run[k].kind # "ok"
         THEN [raised |-> TRUE, embeddings |-> all_embeddings, requests |-> Append(requests, batch)]
         ELSE LET embeddings == SortByIndex(ResponseData(batch, run[k].order)) IN
              EmbedFrom(texts, k + 1, run,
                        all_embeddings \o [j \in 1..Len(embeddings) |-> embeddings[j].embedding],
                        Append(requests, batch))

\* a variant that goes on to the next batch after a failed request
RECURSIVE EmbedSkipping(_, _, _, _, _)
EmbedSkipping(texts, k, run, all_embeddings, requests) ==
    IF k > BatchCount(Len(texts))
    THEN [raised |-> FALSE, embeddings |-> all_embeddings, requests |-> requests]
    ELSE LET batch == Batch(texts, k) IN
         IF run[k].kind # "ok"
         THEN EmbedSkipping(texts, k + 1, run, all_embeddings, Append(requests, batch))
         ELSE LET embeddings == SortByIndex(ResponseData(batch, run[k].order)) IN
              EmbedSkipping(texts, k + 1, run,
                            all_embeddings \o [j \in 1..Len(embeddings) |-> embeddings[j].embedding],
                            Append(requests, batch))

get_zhipu_embedding_mutant(texts, run) == EmbedSkipping(texts, 1, run, <<>>, <<>>)
get_zhipu_embedding(texts, run) == EmbedFrom(texts, 1, run, <<>>, <<>>)

\* build_index, lines 100-108
BuildMetadata(paragraphs) ==
    [i \in 1..Len(paragraphs) |->
        [idx |-> i - 1, chapter |-> paragraphs[i].chapter,
         chapter_idx |-> paragraphs[i].chapter_idx,
         paragraph_idx |-> paragraphs[i].paragraph_idx]]

\* build_index, lines 125-131: the content of metadata.json
MetaFile_mutant(texts, metadata, dimension, model) ==
    [exists |-> TRUE, parses |-> TRUE, paragraphs |-> SubSeq(texts, 1, Len(texts) - 1), metadata |-> metadata,
     dimension |-> dimension, model |-> model]
MetaFile(texts, metadata, dimension, model) ==
    [exists |-> TRUE, parses |-> TRUE, paragraphs |-> texts, metadata |-> metadata,
     dimension |-> dimension, model |-> model]

\* the shape of the in-memory index
MemShape(emb, paragraphs, metadata) ==
    [valid |-> TRUE, rows |-> Len(emb.rows), dim |-> emb.dim,
     paragraphs |-> Len(paragraphs), metadata |-> Len(metadata)]

\* the tuple load_compressed_index returns
NoResult == [embeddings |-> NoMatrix, paragraphs |-> <<>>, metadata |-> <<>>]
Result(embeddings, paragraphs, metadata) ==
    [embeddings |-> embeddings, paragraphs |-> paragraphs, metadata |-> metadata]

\* compressed_index_loader.py, line 74: the metadata of an archive without
\* a meta file
DefaultMetadata(paragraphs) == [i \in 1..Len(paragraphs) |-> [idx |-> i - 1]]

\* compressed_index_loader.py, lines 77-80 and 88-89: the metadata.json of
\* the expansion
ExpandedMetaFile_mutant(paragraphs, metadata_list) ==
    [exists |-> TRUE, parses |-> TRUE, paragraphs |-> <<>>, metadata |-> metadata_list,
     dimension |-> 0, model |-> ""]
ExpandedMetaFile(paragraphs, metadata_list) ==
    [exists |-> TRUE, parses |-> TRUE, paragraphs |-> paragraphs, metadata |-> metadata_list,
     dimension |-> 0, model |-> ""]

\* the ways the write of the expansion ends: both files written; np.save
\* failed; embeddings.npy written and metadata.json not opened;
\* embeddings.npy written and metadata.json left half written
Expansions == {"all", "none", "embeddings", "truncated"}

\* op: the operation; raised: it raised; failed: some request to the provider
\* failed; reordered: some response listed its items out of index order;
\* requests: the batches sent; value: the shape of what a loader returned;
\* path: the layout load_compressed_index read; result: what it returned;
\* expansion: how its write of the expansion ended
NoRet == [op |-> "none", raised |-> FALSE, failed |-> FALSE, reordered |-> FALSE,
          requests |-> <<>>, value |-> NoShape, path |-> "none", result |-> NoResult,
          expansion |-> "none"]

IndexIdle ==
    /\ z_embeddings = NoMatrix
    /\ z_paragraphs = <<>>
    /\ z_metadata = <<>>
    /\ z_dimension = -1
    /\ d_emb = NoMatrix
    /\ d_meta = NoMetaFile
    /\ c_emb = NoMatrix
    /\ c_texts = NoList
    /\ c_meta = NoList
    /\ z_ret = NoRet
    /\ d_saved = NoShape
    /\ z_model = "embedding-2"

\* a fresh retriever, no expanded index on disk, and whatever compressed
\* files the data directory holds
IndexStart ==
    /\ z_embeddings = NoMatrix
    /\ z_paragraphs = <<>>
    /\ z_metadata = <<>>
    /\ z_dimension = -1
    /\ d_emb = NoMatrix
    /\ d_meta = NoMetaFile
    /\ c_emb \in {NoMatrix} \cup {Matrix([i \in 1..n |-> Emb(i)], EmbDim) : n \in 1..MaxFile}
    /\ c_texts \in {NoList} \cup {ListFile([i \in 1..n |-> i]) : n \in 1..MaxFile}
    /\ c_meta \in {NoList} \cup {ListFile([i \in 1..n |-> [idx |-> i - 1]]) : n \in 1..MaxFile}
    /\ z_ret = NoRet
    /\ d_saved = NoShape
    /\ z_model \in Models

\* ZhipuEmbeddingRetriever(api_key, model): a new retriever, as a later
\* process constructs it
NewRetriever ==
    \E model \in Models :
        /\ z_model' = model
        /\ z_embeddings' = NoMatrix
        /\ z_paragraphs' = <<>>
        /\ z_metadata' = <<>>
        /\ z_dimension' = -1
        /\ z_ret' = [NoRet EXCEPT !.op = "new"]
        /\ UNCHANGED <<d_emb, d_meta, c_emb, c_texts, c_meta, d_saved>>
        /\ UNCHANGED notIndex

\* ZhipuEmbeddingRetriever.build_index(paragraphs, output_dir)
BuildIndex ==
    \E n \in BuildSizes :
    \E run \in ProviderRuns(n) :
        LET paragraphs == Paras(n)
            texts == [i \in 1..n |-> paragraphs[i].content]
            metadata == BuildMetadata(paragraphs)
            got == get_zhipu_embedding(texts, run)
            failed == \E k \in 1..Len(run) : run[k].kind # "ok"
            reordered == \E k \in 1..Len(run) :
                             /\ run[k].kind = "ok"
                             /\ \E j \in 1..Len(run[k].order) : run[k].order[j] # j
            ret(raised) == [op |-> "build", raised |-> raised, failed |-> failed,
                            reordered |-> reordered,
                            requests |-> got.requests, value |-> NoShape]
        IN
        /\ z_paragraphs' = texts
        /\ z_metadata' = metadata
        /\ IF got.raised
           THEN \* the exception of get_zhipu_embedding leaves build_index at line 112
                /\ z_ret' = ret(TRUE)
                /\ UNCHANGED <<z_embeddings, z_dimension, d_emb, d_meta, d_saved>>
           ELSE IF got.embeddings = <<>>
           THEN \* np.array([]) has one axis: shape[1] raises IndexError at line 114
                /\ z_embeddings' = Matrix(<<>>, 0)
                /\ z_ret' = ret(TRUE)
                /\ UNCHANGED <<z_dimension, d_emb, d_meta, d_saved>>
           ELSE /\ z_embeddings' = Matrix(got.embeddings, Dimension(z_model))
                /\ z_dimension' = Dimension(z_model)
                /\ d_emb' = Matrix(got.embeddings, Dimension(z_model))
                /\ d_meta' = MetaFile(texts, metadata, Dimension(z_model), z_model)
                /\ d_saved' = MemShape(Matrix(got.embeddings, Dimension(z_model)), texts, metadata)
                /\ z_ret' = ret(FALSE)
        /\ UNCHANGED <<c_emb, c_texts, c_meta, z_model>>
        /\ UNCHANGED notIndex

\* ZhipuEmbeddingRetriever.load_index(index_dir)
LoadIndex ==
    /\ IF ~d_emb.exists
       THEN \* np.load raises
            /\ z_ret' = [NoRet EXCEPT !.op = "load", !.raised = TRUE]
            /\ UNCHANGED <<z_embeddings, z_dimension, z_paragraphs, z_metadata>>
       ELSE /\ z_embeddings' = d_emb
            /\ z_dimension' = d_emb.dim
            /\ IF ~d_meta.exists \/ ~d_meta.parses
               THEN \* open or json.load raises
                    /\ z_ret' = [NoRet EXCEPT !.op = "load", !.raised = TRUE]
                    /\ UNCHANGED <<z_paragraphs, z_metadata>>
               ELSE /\ z_paragraphs' = d_meta.paragraphs
                    /\ z_metadata' = d_meta.metadata
                    /\ z_ret' = [NoRet EXCEPT !.op = "load"]
    /\ UNCHANGED <<d_emb, d_meta, c_emb, c_texts, c_meta, d_saved, z_model>>
    /\ UNCHANGED notIndex

\* load_compressed_index(data_dir); value is the shape of the tuple returned
\* (valid = FALSE: None)
LoadCompressedIndex ==
    \E written \in Expansions :
        /\ IF d_emb.exists /\ d_meta.exists /\ d_meta.parses
           THEN \* lines 30-36: the expanded files
                /\ z_ret' = [NoRet EXCEPT !.op = "load_compressed", !.path = "expanded",
                                !.value = MemShape(d_emb, d_meta.paragraphs, d_meta.metadata),
                                !.result = Result(d_emb, d_meta.paragraphs, d_meta.metadata)]
                /\ UNCHANGED <<d_emb, d_meta, d_saved>>
           ELSE IF ~c_emb.exists
           THEN \* lines 46-48
                /\ z_ret' = [NoRet EXCEPT !.op = "load_compressed"]
                /\ UNCHANGED <<d_emb, d_meta, d_saved>>
           ELSE LET paragraphs == IF c_texts.exists THEN c_texts.list ELSE <<>>
                    metadata_list == IF c_meta.exists
                                     THEN c_meta.list
                                     ELSE DefaultMetadata(paragraphs)
                IN
                \* lines 85-92: the expansion is written; a failure of the
                \* write is logged and ignored
                /\ d_emb' = IF written = "none" THEN d_emb ELSE c_emb
                /\ d_meta' = CASE written = "all" -> ExpandedMetaFile(paragraphs, metadata_list)
                               [] written = "truncated" -> TruncatedMetaFile
                               [] OTHER -> d_meta
                /\ d_saved' = IF written = "none" THEN d_saved ELSE NoShape
                /\ z_ret' = [NoRet EXCEPT !.op = "load_compressed", !.path = "compressed",
                                !.expansion = written,
                                !.value = MemShape(c_emb, paragraphs, metadata_list),
                                !.result = Result(c_emb, paragraphs, metadata_list)]
        /\ UNCHANGED <<z_embeddings, z_paragraphs, z_metadata, z_dimension, c_emb, c_texts, c_meta, z_model>>
        /\ UNCHANGED notIndex

NoEntry == [data |-> None, ts |-> -1]

CacheIdle ==
    /\ answer_cache = <<>>
    /\ now = 0
    /\ cache_ret = [op |-> "none", key |-> None, ret |-> None, at |-> 0, evicted |-> {}]
    /\ cache_live = [k \in CacheKeys |-> NoEntry]

\* time passes
Tick ==
    /\ now < MaxTime
    /\ now' = now + 1
    /\ cache_ret' = [op |-> "tick", key |-> None, ret |-> None, at |-> now + 1, evicted |-> {}]
    /\ UNCHANGED <<answer_cache, cache_live>>
    /\ UNCHANGED notCache

GetCachedAnswer ==
    \E rq \in Requests :
        LET q == rq[1]
            temp == rq[2]
            r == get_cached_answer(answer_cache, q, temp, now)
        IN
        /\ answer_cache' = r.cache
        /\ cache_ret' = [op |-> "get", key |-> get_cache_key(q, temp), ret |-> r.ret, at |-> now, evicted |-> {}]
        /\ UNCHANGED <<now, cache_live>>
        /\ UNCHANGED notCache

SetCachedAnswer ==
    \E rq \in Requests, a \in Answers :
        LET q == rq[1]
            temp == rq[2]
            r == set_cached_answer(answer_cache, q, temp, a, now)
            k == get_cache_key(q, temp)
        IN
        /\ answer_cache' = r.cache
        /\ cache_ret' = [op |-> "set", key |-> k, ret |-> None, at |-> now, evicted |-> r.evicted]
        /\ cache_live' = [x \in CacheKeys |->
                            IF x = k THEN [data |-> a, ts |-> now]
                            ELSE IF x \in r.evicted THEN NoEntry
                            ELSE cache_live[x]]
        /\ UNCHANGED now
        /\ UNCHANGED notCache

\* app.py:170  _answer_cache.clear()
CacheClear ==
    /\ answer_cache' = <<>>
    /\ cache_ret' = [op |-> "clear", key |-> None, ret |-> None, at |-> now, evicted |-> {}]
    /\ cache_live' = [k \in CacheKeys |-> NoEntry]
    /\ UNCHANGED now
    /\ UNCHANGED notCache

(***************************************************************************)
(* app.py: the cache functions run by several threads of one process.      *)
(* The functions take no lock; a step is one operation on the dict         *)
(* (a membership test, a read, a delete, a store, one step of an iterator, *)
(* the min() call), which the interpreter runs without interruption.       *)
(***************************************************************************)

\* Number of threads, and the calls they make in all.
NumThreads == 2
MaxCalls == 3

Threads == 1..NumThreads
ThreadAnswers == {"a1"}
NoKey == <<>>

\* pc: next step ("idle": between calls); key, data: the arguments; ts: the
\* timestamp read at line 43; t: the local now of line 54; it, size: position
\* of the items() iterator and the dict size when it was created; expired:
\* expired_keys, what is left of it; oldest: oldest_key; ret: the value
\* returned; error: the exception that ended the call ("": none)
IdleThread == [pc |-> "idle", key |-> NoKey, data |-> None, ts |-> 0, t |-> 0,
               it |-> 0, size |-> 0, expired |-> <<>>, oldest |-> NoKey,
               ret |-> None, error |-> "", calls |-> 0]

ThreadsIdle == th = [t \in Threads |-> IdleThread]

RECURSIVE CallsMade(_, _)
CallsMade(f, n) == IF n = 0 THEN 0 ELSE f[n].calls + CallsMade(f, n - 1)

\* the call ends: by return, or by the exception error
Return(r, ret, error) ==
    [IdleThread EXCEPT !.ret = ret, !.error = error, !.calls = r.calls]

\* a request calls _get_cached_answer, _set_cached_answer (up to the creation
\* of the items() iterator at line 55) or reaches the cache_clear action
ThreadCall ==
    \E t \in Threads, op \in {"get", "set", "clear"}, rq \in Requests, a \in ThreadAnswers :
        /\ th[t].pc = "idle"
        /\ CallsMade(th, NumThreads) < MaxCalls
        /\ th' = [th EXCEPT ![t] =
                     [IdleThread EXCEPT
                         !.calls = th[t].calls + 1,
                         !.key = IF op = "clear" THEN NoKey ELSE get_cache_key(rq[1], rq[2]),
                         !.data = IF op = "set" THEN a ELSE None,
                         !.pc = CASE op = "get" -> "get_lookup"
                                  [] op = "set" -> "set_iterate"
                                  [] op = "clear" -> "clear",
                         !.t = IF op = "set" THEN now ELSE 0,
                         !.it = IF op = "set" THEN 1 ELSE 0,
                         !.size = IF op = "set" THEN Len(answer_cache) ELSE 0]]
        /\ UNCHANGED <<answer_cache, now>>
        /\ UNCHANGED notMT

\* app.py:42  if key in _answer_cache
GetLookup ==
    \E t \in Threads :
        /\ th[t].pc = "get_lookup"
        /\ th' = [th EXCEPT ![t] =
                     IF CacheHas(answer_cache, th[t].key)
                     THEN [th[t] EXCEPT !.pc = "get_read"]
                     ELSE Return(th[t], None, "")]
        /\ UNCHANGED <<answer_cache, now>>
        /\ UNCHANGED notMT

\* app.py:43  data, timestamp = _answer_cache[key]
GetRead ==
    \E t \in Threads :
        /\ th[t].pc = "get_read"
        /\ th' = [th EXCEPT ![t] =
                     IF CacheHas(answer_cache, th[t].key)
                     THEN [th[t] EXCEPT !.pc = "get_compare",
                                        !.data = CacheAt(answer_cache, th[t].key).data,
                                        !.ts = CacheAt(answer_cache, th[t].key).ts]
                     ELSE Return(th[t], None, "KeyError")]
        /\ UNCHANGED <<answer_cache, now>>
        /\ UNCHANGED notMT

\* app.py:44-45  if time.time() - timestamp < _cache_ttl: return data
GetCompare ==
    \E t \in Threads :
        /\ th[t].pc = "get_compare"
        /\ th' = [th EXCEPT ![t] =
                     IF Fresh(th[t].ts, now)
                     THEN Return(th[t], th[t].data, "")
                     ELSE [th[t] EXCEPT !.pc = "get_delete"]]
        /\ UNCHANGED <<answer_cache, now>>
        /\ UNCHANGED notMT

\* app.py:47-48  del _answer_cache[key]; return None
GetDelete ==
    \E t \in Threads :
        /\ th[t].pc = "get_delete"
        /\ IF CacheHas(answer_cache, th[t].key)
           THEN /\ answer_cache' = CacheDel(answer_cache, th[t].key)
                /\ th' = [th EXCEPT ![t] = Return(th[t], None, "")]
           ELSE /\ th' = [th EXCEPT ![t] = Return(th[t], None, "KeyError")]
                /\ UNCHANGED answer_cache
        /\ UNCHANGED now
        /\ UNCHANGED notMT

\* app.py:55  one step of the comprehension over _answer_cache.items(): the
\* iterator raises when the dict has changed size since it was created
SetIterate ==
    \E t \in Threads :
        /\ th[t].pc = "set_iterate"
        /\ th' = [th EXCEPT ![t] =
                     IF Len(answer_cache) # th[t].size
                     THEN Return(th[t], None, "RuntimeError")
                     ELSE IF th[t].it > Len(answer_cache)
                     THEN [th[t] EXCEPT !.pc = "set_delete_expired"]
                     ELSE LET e == answer_cache[th[t].it] IN
                          [th[t] EXCEPT !.it = th[t].it + 1,
                                        !.expired = IF Expired(e.ts, th[t].t)
                                                    THEN Append(th[t].expired, e.key)
                                                    ELSE th[t].expired]]
        /\ UNCHANGED <<answer_cache, now>>
        /\ UNCHANGED notMT

\* app.py:56-57  for k in expired_keys: del _answer_cache[k]
SetDeleteExpired ==
    \E t \in Threads :
        /\ th[t].pc = "set_delete_expired"
        /\ IF th[t].expired = <<>>
           THEN /\ th' = [th EXCEPT ![t] = [th[t] EXCEPT !.pc = "set_check_size"]]
                /\ UNCHANGED answer_cache
           ELSE IF CacheHas(answer_cache, Head(th[t].expired))
           THEN /\ answer_cache' = CacheDel(answer_cache, Head(th[t].expired))
                /\ th' = [th EXCEPT ![t] = [th[t] EXCEPT !.expired = Tail(th[t].expired)]]
           ELSE /\ th' = [th EXCEPT ![t] = Return(th[t], None, "KeyError")]
                /\ UNCHANGED answer_cache
        /\ UNCHANGED now
        /\ UNCHANGED notMT

\* app.py:59  if len(_answer_cache) >= _cache_max_size
SetCheckSize ==
    \E t \in Threads :
        /\ th[t].pc = "set_check_size"
        /\ th' = [th EXCEPT ![t] =
                     [th[t] EXCEPT !.pc = IF OverCapacity(answer_cache)
                                          THEN "set_find_oldest" ELSE "set_store"]]
        /\ UNCHANGED <<answer_cache, now>>
        /\ UNCHANGED notMT

\* app.py:60  oldest_key = min(_answer_cache.keys(), key=...), taken as one
\* step; min() of an empty dict raises
SetFindOldest ==
    \E t \in Threads :
        /\ th[t].pc = "set_find_oldest"
        /\ th' = [th EXCEPT ![t] =
                     IF answer_cache = <<>>
                     THEN Return(th[t], None, "ValueError")
                     ELSE [th[t] EXCEPT !.pc = "set_delete_oldest",
                                        !.oldest = OldestKey(answer_cache)]]
        /\ UNCHANGED <<answer_cache, now>>
        /\ UNCHANGED notMT

\* app.py:61  del _answer_cache[oldest_key]
SetDeleteOldest ==
    \E t \in Threads :
        /\ th[t].pc = "set_delete_oldest"
        /\ IF CacheHas(answer_cache, th[t].oldest)
           THEN /\ answer_cache' = CacheDel(answer_cache, th[t].oldest)
                /\ th' = [th EXCEPT ![t] = [th[t] EXCEPT !.pc = "set_store"]]
           ELSE /\ th' = [th EXCEPT ![t] = Return(th[t], None, "KeyError")]
                /\ UNCHANGED answer_cache
        /\ UNCHANGED now
        /\ UNCHANGED notMT

\* app.py:62  _answer_cache[key] = (answer, now)
SetStore ==
    \E t \in Threads :
        /\ th[t].pc = "set_store"
        /\ answer_cache' = CachePut(answer_cache, th[t].key, th[t].data, th[t].t)
        /\ th' = [th EXCEPT ![t] = Return(th[t], None, "")]
        /\ UNCHANGED now
        /\ UNCHANGED notMT

\* app.py:170  _answer_cache.clear()
ClearStep ==
    \E t \in Threads :
        /\ th[t].pc = "clear"
        /\ answer_cache' = <<>>
        /\ th' = [th EXCEPT ![t] = Return(th[t], None, "")]
        /\ UNCHANGED now
        /\ UNCHANGED notMT

\* time passes
ClockTick ==
    /\ now < MaxTime
    /\ now' = now + 1
    /\ UNCHANGED <<answer_cache, th>>
    /\ UNCHANGED notMT

(***************************************************************************)
(* src/expert_system_v2.py: ExpertSystemV2.retrieve, get_context, answer     *)
(* src/expert_ai_v2.py: ExpertAIV2.keyword_search, semantic_search,          *)
(* build_context                                                            *)
(*                                                                         *)
(* A query is the sequence of its whitespace-separated words, the content  *)
(* of a paragraph the set of words occurring in it.  A result list is the   *)
(* sequence of the positions (from 1) of the paragraphs returned.           *)
(***************************************************************************)

\* Most paragraphs loaded.
MaxCorpus == 2

\* the top_k values callers pass
ServeTopKs == {1, 2}

\* expert_system_v2.py:133  def get_context(self, query, top_k: int = 5)
get_context_top_k == 5
\* expert_ai_v2.py:202  self.semantic_search(query, top_k=3)
build_context_top_k == 3

ServeWords == {"xu", "tower"}

\* the keys of knowledge_base['character_timeline']
KnownChars == {"xu"}

ServeQueries == {<<"xu">>, <<"xu", "tower">>, <<"mei">>}

ServeContents == {{"xu"}, {"tower"}, {"xu", "tower"}}

Corpora ==
    UNION {[1..n -> {[content |-> c, chapter |-> "ch"] : c \in ServeContents}] :
               n \in 0..MaxCorpus}

\* the similarity search() computes between the query and paragraph i
Similarity(paragraphs, query) ==
    [i \in 1..Len(paragraphs) |-> Cardinality(Range(query) \cap paragraphs[i].content)]

\* np.argsort(similarities)[::-1][:top_k]: the rows by similarity, highest
\* first; the sort is a function of the array, and the order it leaves equal
\* rows in is the one of the numpy build (ties): lower row first or higher
\* row first
argsort_top_mutant(sim, top_k, ties) ==
    LET n == Len(sim)
        Before(a, b) == sim[a] < sim[b] \/ (sim[a] = sim[b] /\ a < b)
        order == CHOOSE p \in [1..n -> 1..n] :
                     \A i, j \in 1..n : i < j => Before(p[i], p[j])
    IN SubSeq(order, 1, Min(top_k, n))
argsort_top(sim, top_k, ties) ==
    LET n == Len(sim)
        Before(a, b) == \/ sim[a] > sim[b]
                        \/ sim[a] = sim[b] /\ (IF ties = "low_first" THEN a < b ELSE a > b)
        order == CHOOSE p \in [1..n -> 1..n] :
                     \A i, j \in 1..n : i < j => Before(p[i], p[j])
    IN SubSeq(order, 1, Min(top_k, n))

\* the rankings of the build the system runs on
Rankings(sim, top_k) == {argsort_top(sim, top_k, s_env.ties)}

\* the failures of a request to the provider: requests.post times out, or
\* raise_for_status finds a 401
RetryableErrors == {"timeout"}
TerminalErrors == {"auth"}
ProviderErrors == RetryableErrors \cup TerminalErrors

\* ZhipuEmbeddingRetriever.search with the index loaded: the outcomes
\* [raised, results] when the provider answers the query embedding (provider
\* = "ok") or the request fails (provider is the error)
zhipu_search(paragraphs, query, top_k, provider) ==
    IF provider \in ProviderErrors
    THEN {[raised |-> TRUE, results |-> <<>>]}
    ELSE {[raised |-> FALSE, results |-> r] :
              r \in Rankings(Similarity(paragraphs, query), top_k)}

\* search, "组装结果": the result dictionaries of the rows top, each with the
\* similarity, the content and the metadata of its row
search_items(paragraphs, sim, top) ==
    [i \in 1..Len(top) |->
        [idx |-> top[i] - 1, similarity |-> sim[top[i]],
         content |-> paragraphs[top[i]].content, chapter |-> paragraphs[top[i]].chapter]]

\* SemanticRetrieverV2.search: np.dot(...).squeeze() of a one-row index is a
\* 0-dimensional array, and similarities[idx] on it raises IndexError
semantic_v2_search(paragraphs, query, top_k) ==
    IF Len(paragraphs) = 1
    THEN {[raised |-> TRUE, results |-> <<>>]}
    ELSE {[raised |-> FALSE, results |-> r] :
              r \in Rankings(Similarity(paragraphs, query), top_k)}

\* LightweightRetriever.search: no call to the provider
tfidf_search(paragraphs, query, top_k) ==
    {[raised |-> FALSE, results |-> r] :
         r \in Rankings(Similarity(paragraphs, query), top_k)}

\* ExpertAIV2.keyword_search: the score of paragraph i
KeywordScore(paragraphs, query, i) ==
    2 * Cardinality({kw \in Range(query) : kw \in paragraphs[i].content})
        + 3 * Cardinality({char \in KnownChars :
                               char \in Range(query) /\ char \in paragraphs[i].content})

\* ExpertAIV2.keyword_search: the paragraphs of positive score, by score,
\* highest first, equal scores in list order (list.sort is stable)
keyword_search(paragraphs, query, top_k) ==
    LET scored == {i \in 1..Len(paragraphs) : KeywordScore(paragraphs, query, i) > 0}
        sc(i) == KeywordScore(paragraphs, query, i)
        sorted == CHOOSE r \in [1..Cardinality(scored) -> scored] :
                      \A i, j \in 1..Cardinality(scored) :
                          i < j => \/ sc(r[i]) > sc(r[j])
                                   \/ sc(r[i]) = sc(r[j]) /\ r[i] < r[j]
    IN SubSeq(sorted, 1, Min(top_k, Len(sorted)))

\* ExpertSystemV2.retrieve: self.retriever.search(query, top_k=top_k)
system_retrieve(use_semantic, paragraphs, query, top_k, provider) ==
    IF use_semantic
    THEN zhipu_search(paragraphs, query, top_k, provider)
    ELSE tfidf_search(paragraphs, query, top_k)

\* ExpertAIV2.semantic_search; ai.retriever is set exactly when use_semantic
\* (ExpertSystemV2._init_ai)
semantic_search(use_semantic, paragraphs, query, top_k, provider) ==
    IF ~use_semantic
    THEN {keyword_search(paragraphs, query, top_k)}
    ELSE {IF out.raised THEN keyword_search(paragraphs, query, top_k) ELSE out.results :
              out \in zhipu_search(paragraphs, query, top_k, provider)}

\* knowledge_base['character_timeline']: the events of each character, an
\* event text being the set of the words in it
character_timeline ==
    [char \in KnownChars |-> <<[chapter |-> "ch1", event |-> {"tower"}],
                               [chapter |-> "ch2", event |-> {"mei"}]>>]

\* the keys of character_timeline in dictionary order
CharList == <<"xu">>

\* one element of context_parts
Part(kind, rank, para, chapter) ==
    [kind |-> kind, rank |-> rank, para |-> para, chapter |-> chapter]

\* for char in ...keys(): if char in query: mentioned_chars.append(char)
MentionedChars(query) ==
    LET In(char) == char \in Range(query) IN SelectSeq(CharList, In)

\* [e for e in timeline if any(kw in e['event'] for kw in query.split()[:3])]
RelevantEvents(query, char) ==
    LET kws == Range(SubSeq(query, 1, Min(3, Len(query))))
        Rel(e) == kws \cap e.event # {}
    IN SelectSeq(character_timeline[char], Rel)

First(l, n) == SubSeq(l, 1, Min(n, Len(l)))

\* the lines of the characters chars[k..]: the name, then one line per event
\* kept (most events kept; fallback: the first events of the timeline when
\* none is relevant)
RECURSIVE CharParts(_, _, _, _, _)
CharParts(query, chars, k, most, fallback) ==
    IF k > Len(chars)
    THEN <<>>
    ELSE LET relevant == First(RelevantEvents(query, chars[k]), most)
             kept == IF relevant = <<>> /\ fallback
                     THEN First(character_timeline[chars[k]], most)
                     ELSE relevant
             lines == IF kept = <<>>
                      THEN <<>>
                      ELSE <<Part("knowledge_char", 0, 0, "")>>
                               \o [i \in 1..Len(kept) |->
                                      Part("knowledge_entry", 0, 0, kept[i].chapter)]
         IN lines \o CharParts(query, chars, k + 1, most, fallback)

\* the knowledge section: its header when the query mentions a character,
\* then the lines of the first two characters mentioned
KnowledgeParts(query, most, fallback) ==
    LET chars == MentionedChars(query) IN
    IF chars = <<>>
    THEN <<>>
    ELSE <<Part("knowledge_header", 0, 0, "")>>
             \o CharParts(query, First(chars, 2), 1, most, fallback)

\* for i, r in enumerate(results, 1): "段落{i} [{chapter}] ..." and the content
PassageParts(paragraphs, results) ==
    [i \in 1..Len(results) |-> Part("passage", i, results[i], paragraphs[results[i]].chapter)]

\* ExpertSystemV2.get_context, lines 139-170: context_parts
system_get_context(paragraphs, query, results) ==
    <<Part("passage_header", 0, 0, "")>>
        \o PassageParts(paragraphs, results)
        \o KnowledgeParts(query, 2, FALSE)

\* ExpertAIV2.build_context, lines 163-214: context_parts (a knowledge base
\* without plot_causes)
ai_build_context(paragraphs, query, results) ==
    KnowledgeParts(query, 3, TRUE)
        \o <<Part("passage_header", 0, 0, "")>>
        \o PassageParts(paragraphs, results)

\* op: the call; provider: what the provider did with the query embedding
\* ("unused": not called); raised: the call raised; results: the paragraphs
\* retrieved; mode: the retrieval mode the returned value is labelled with
\* ("none": no label); success: the success field of an answer; attempts:
\* the requests sent for the query embedding; llm: what the chat completion
\* did ("unused": not called); error: the value carries an error message;
\* context: the context_parts returned; provider2: what the provider did with
\* the second retrieval of the /query handler; items: the result dictionaries
\* of a search
NoServe == [op |-> "none", query |-> <<>>, top_k |-> 0, provider |-> "unused",
            raised |-> FALSE, results |-> <<>>, mode |-> "none", success |-> FALSE,
            attempts |-> 0, llm |-> "unused", error |-> FALSE, context |-> <<>>,
            provider2 |-> "unused", items |-> <<>>]

Called(use_semantic, provider) == IF use_semantic THEN provider ELSE "unused"

\* what may happen to the query embedding request of a call: only the
\* semantic retriever sends one
ProviderOutcomes(use_semantic) ==
    IF use_semantic THEN {"ok"} \cup ProviderErrors ELSE {"unused"}

\* get_zhipu_embedding([query], ...): the requests.post calls of the one
\* batch; the except clause re-raises whatever the request raised
embedding_attempts(provider) == IF provider = "unused" THEN 0 ELSE 1

\* key: ZHIPU_API_KEY is configured; zhipu_index: zhipu_index/embeddings.npy
\* exists; load: the import of ZhipuEmbeddingRetriever and load_index succeed.
\* The TF-IDF index of the data directory exists or can be built.
\* ties: the order in which np.argsort leaves rows of equal similarity.
Environments ==
    [key : BOOLEAN, zhipu_index : BOOLEAN, load : BOOLEAN, ties : {"low_first", "high_first"}]

NoEnvironment == [key |-> FALSE, zhipu_index |-> FALSE, load |-> FALSE, ties |-> "low_first"]

\* ExpertSystemV2._init_retriever: [retriever, use_semantic, raised]
init_retriever_mutant(env) ==
    IF env.zhipu_index /\ env.load
    THEN [retriever |-> "zhipu", use_semantic |-> TRUE]
    ELSE [retriever |-> "tfidf", use_semantic |-> FALSE]
init_retriever(env) ==
    IF env.zhipu_index /\ env.key /\ env.load
    THEN [retriever |-> "zhipu", use_semantic |-> TRUE]
    ELSE [retriever |-> "tfidf", use_semantic |-> FALSE]

ServeIdle ==
    /\ s_use_semantic = FALSE
    /\ s_paragraphs = <<>>
    /\ s_ret = NoServe
    /\ s_env = NoEnvironment
    /\ s_retriever = "none"

\* a data directory and an environment, no system constructed yet
ServeStart ==
    /\ s_use_semantic = FALSE
    /\ s_paragraphs \in Corpora
    /\ s_ret = NoServe
    /\ s_env \in Environments
    /\ s_retriever = "none"

\* ExpertSystemV2.__init__: _init_retriever, _init_ai
InitSystem ==
    /\ s_retriever = "none"
    /\ s_ret.op = "none"
    /\ LET init == init_retriever(s_env) IN
       /\ s_retriever' = init.retriever
       /\ s_use_semantic' = init.use_semantic
       /\ s_ret' = [NoServe EXCEPT !.op = "init"]
    /\ UNCHANGED <<s_paragraphs, s_env>>
    /\ UNCHANGED notServe

\* ExpertSystemV2.retrieve(query, top_k)
SystemRetrieve ==
    \E query \in ServeQueries, top_k \in ServeTopKs, provider \in ProviderOutcomes(s_use_semantic) :
    \E out \in system_retrieve(s_use_semantic, s_paragraphs, query, top_k, provider) :
        /\ s_retriever # "none"
        /\ s_ret' = [NoServe EXCEPT !.op = "retrieve", !.query = query, !.top_k = top_k,
                        !.provider = Called(s_use_semantic, provider),
                        !.attempts = embedding_attempts(Called(s_use_semantic, provider)),
                        !.raised = out.raised, !.results = out.results,
                        !.items = search_items(s_paragraphs, Similarity(s_paragraphs, query),
                                               out.results)]
        /\ UNCHANGED <<s_use_semantic, s_paragraphs, s_env, s_retriever>>
        /\ UNCHANGED notServe

\* SemanticRetrieverV2.search(query, top_k) over the same paragraphs, as
\* ExpertRetrieverV2.retrieve calls it
SemanticV2Search ==
    \E query \in ServeQueries, top_k \in ServeTopKs :
    \E out \in semantic_v2_search(s_paragraphs, query, top_k) :
        /\ s_ret' = [NoServe EXCEPT !.op = "v2_search", !.query = query, !.top_k = top_k,
                        !.raised = out.raised, !.results = out.results,
                        !.items = search_items(s_paragraphs, Similarity(s_paragraphs, query),
                                               out.results)]
        /\ UNCHANGED <<s_use_semantic, s_paragraphs, s_env, s_retriever>>
        /\ UNCHANGED notServe

\* ExpertSystemV2.get_context(query, top_k)
SystemGetContext ==
    \E query \in ServeQueries, top_k \in ServeTopKs, provider \in ProviderOutcomes(s_use_semantic) :
    \E out \in system_retrieve(s_use_semantic, s_paragraphs, query, top_k, provider) :
        /\ s_retriever # "none"
        /\ s_ret' = [NoServe EXCEPT !.op = "get_context", !.query = query, !.top_k = top_k,
                        !.provider = Called(s_use_semantic, provider),
                        !.attempts = embedding_attempts(Called(s_use_semantic, provider)),
                        !.raised = out.raised, !.results = out.results,
                        !.context = IF out.raised THEN <<>>
                                    ELSE system_get_context(s_paragraphs, query, out.results),
                        !.mode = IF out.raised THEN "none"
                                 ELSE IF s_use_semantic THEN "semantic" ELSE "keyword"]
        /\ UNCHANGED <<s_use_semantic, s_paragraphs, s_env, s_retriever>>
        /\ UNCHANGED notServe

\* ExpertSystemV2.answer(query); llm is the outcome of the chat completion
SystemAnswer ==
    \E query \in ServeQueries, provider \in ProviderOutcomes(s_use_semantic), llm \in {"ok", "fail"} :
    \E out \in system_retrieve(s_use_semantic, s_paragraphs, query, get_context_top_k, provider) :
        /\ s_retriever # "none"
        /\ s_ret' = [NoServe EXCEPT !.op = "answer", !.query = query,
                        !.top_k = get_context_top_k,
                        !.provider = Called(s_use_semantic, provider),
                        !.attempts = embedding_attempts(Called(s_use_semantic, provider)),
                        !.raised = out.raised, !.results = out.results,
                        !.success = ~out.raised /\ llm = "ok",
                        !.llm = IF out.raised THEN "unused" ELSE llm,
                        !.error = ~out.raised /\ llm = "fail",
                        !.mode = IF out.raised \/ llm = "fail" THEN "none"
                                 ELSE IF s_use_semantic THEN "semantic" ELSE "tfidf"]
        /\ UNCHANGED <<s_use_semantic, s_paragraphs, s_env, s_retriever>>
        /\ UNCHANGED notServe

\* ExpertAIV2.semantic_search(query, top_k)
AISemanticSearch ==
    \E query \in ServeQueries, top_k \in ServeTopKs, provider \in ProviderOutcomes(s_use_semantic) :
    \E results \in semantic_search(s_use_semantic, s_paragraphs, query, top_k, provider) :
        /\ s_retriever # "none"
        /\ s_ret' = [NoServe EXCEPT !.op = "semantic_search", !.query = query, !.top_k = top_k,
                        !.provider = Called(s_use_semantic, provider),
                        !.attempts = embedding_attempts(Called(s_use_semantic, provider)),
                        !.results = results]
        /\ UNCHANGED <<s_use_semantic, s_paragraphs, s_env, s_retriever>>
        /\ UNCHANGED notServe

\* ExpertAIV2.build_context(query), part 4
AIBuildContext ==
    \E query \in ServeQueries, provider \in ProviderOutcomes(s_use_semantic) :
    \E results \in IF s_use_semantic
                   THEN semantic_search(s_use_semantic, s_paragraphs, query,
                                        build_context_top_k, provider)
                   ELSE {keyword_search(s_paragraphs, query, build_context_top_k)} :
        /\ s_retriever # "none"
        /\ s_ret' = [NoServe EXCEPT !.op = "build_context", !.query = query,
                        !.top_k = build_context_top_k,
                        !.provider = Called(s_use_semantic, provider),
                        !.attempts = embedding_attempts(Called(s_use_semantic, provider)),
                        !.results = results,
                        !.context = ai_build_context(s_paragraphs, query, results),
                        !.mode = IF s_use_semantic THEN "semantic" ELSE "keyword"]
        /\ UNCHANGED <<s_use_semantic, s_paragraphs, s_env, s_retriever>>
        /\ UNCHANGED notServe

\* api.py, lines 115-122: the QueryResponse built from the result of answer
\* and the context
QueryResponse_mutant(result, context) ==
    [success |-> result.success, error |-> result.error,
     context |-> IF result.success THEN context ELSE <<>>]
QueryResponse(result, context) ==
    [success |-> result.success, error |-> result.error, context |-> context]

\* api.py, lines 123-128: the QueryResponse of the except clause
FailureResponse == [success |-> FALSE, error |-> TRUE, context |-> <<>>]

\* POST /query with the system loaded: system.answer, then
\* system.get_context(query, top_k), each with its own retrieval
ApiQuery ==
    \E query \in ServeQueries, top_k \in ServeTopKs,
       provider \in ProviderOutcomes(s_use_semantic) :
    \* answer: its get_context raises or not, whatever it retrieves
    \E raised \in {\E o \in system_retrieve(s_use_semantic, s_paragraphs, query,
                                          get_context_top_k, provider) : o.raised} :
    \* what follows the retrieval of answer is reached when it returned
    \E llm \in IF raised THEN {"unused"} ELSE {"ok", "fail"},
       provider2 \in IF raised THEN {"unused"} ELSE ProviderOutcomes(s_use_semantic) :
    \E out2 \in system_retrieve(s_use_semantic, s_paragraphs, query, top_k, provider2) :
    \E response \in {IF raised \/ out2.raised
                     THEN FailureResponse
                     ELSE QueryResponse([success |-> llm = "ok", error |-> llm = "fail"],
                              system_get_context(s_paragraphs, query, out2.results))} :
        /\ s_retriever # "none"
        /\ s_ret' = [NoServe EXCEPT !.op = "query", !.query = query, !.top_k = top_k,
                        !.provider = Called(s_use_semantic, provider),
                        !.provider2 = Called(s_use_semantic, provider2),
                        !.llm = llm,
                        !.attempts = embedding_attempts(Called(s_use_semantic, provider))
                                       + embedding_attempts(Called(s_use_semantic, provider2)),
                        !.results = IF raised \/ out2.raised THEN <<>> ELSE out2.results,
                        !.success = response.success,
                        !.error = response.error,
                        !.context = response.context]
        /\ UNCHANGED <<s_use_semantic, s_paragraphs, s_env, s_retriever>>
        /\ UNCHANGED notServe

\* GET /search with the system loaded; raised: the HTTPException of line 149
ApiSearch ==
    \E query \in ServeQueries, top_k \in ServeTopKs, provider \in ProviderOutcomes(s_use_semantic) :
    \E out \in system_retrieve(s_use_semantic, s_paragraphs, query, top_k, provider) :
        /\ s_retriever # "none"
        /\ s_ret' = [NoServe EXCEPT !.op = "search", !.query = query, !.top_k = top_k,
                        !.provider = Called(s_use_semantic, provider),
                        !.attempts = embedding_attempts(Called(s_use_semantic, provider)),
                        !.raised = out.raised, !.error = out.raised,
                        !.results = out.results]
        /\ UNCHANGED <<s_use_semantic, s_paragraphs, s_env, s_retriever>>
        /\ UNCHANGED notServe

(***************************************************************************)
(* hybrid_search of ZhipuEmbeddingRetriever and LightweightRetriever.      *)
(* A score is a float; the model keeps it as a whole number of 1/ScoreUnit *)
(* and a weight as a whole number of tenths, so a combined score is a      *)
(* whole number of 1/(10 * ScoreUnit).                                     *)
(***************************************************************************)
ScoreUnit == 6
WeightUnit == 10

\* the number of paragraphs handed to build_index
FusionSize == 2

\* the words of the texts, and the tokens jieba.cut finds in the queries
FusionContents == {{"xu"}, {"xu", "tower"}}
FusionQueries == {<<"xu">>, <<"xu", "tower">>, <<"chapter">>}
FusionTopKs == {1, 2}

\* the paragraphs handed to build_index: dicts with the keys content, chapter
ParagraphKeys == {"content", "chapter"}
FusionParagraphs ==
    [1..FusionSize -> {[content |-> c, chapter |-> "ch"] : c \in FusionContents}]

\* the semantic scores of the paragraphs for a query (cosine similarities of
\* the embeddings, or of the TF-IDF vectors): 0 or 1
SemanticLevels == {0, ScoreUnit}
SemanticScores(n) == [1..n -> SemanticLevels]

\* alpha of ZhipuEmbeddingRetriever.hybrid_search (default 0.8), in tenths
Alphas == {8, 5}
\* the weight of the TF-IDF score in LightweightRetriever.hybrid_search
tfidf_weight == 7

\* a member of self.paragraphs: the text, or the dict the caller passed
TextOf(p) == [type |-> "str", content |-> p.content, keys |-> {}]
DictOf(p) == [type |-> "dict", content |-> p.content, keys |-> ParagraphKeys]

\* Python's `kw in content`: a substring of a str, a key of a dict
Contains(kw, content) ==
    IF content.type = "str" THEN kw \in content.content ELSE kw \in content.keys

NoFusionRetriever == [class |-> "none", how |-> "none", paragraphs |-> <<>>, disk |-> <<>>]
NoFusionCall == [op |-> "none", query |-> <<>>, top_k |-> 0, alpha |-> 0,
                 semantic |-> <<>>, results |-> <<>>]

FusionIdle ==
    /\ f_retriever = NoFusionRetriever
    /\ f_ret = NoFusionCall

\* build_index: ZhipuEmbeddingRetriever keeps the texts (line 99),
\* LightweightRetriever keeps the dicts it was handed (line 49); both write
\* the texts to metadata.json
FusionBuildIndex ==
    \E class \in {"zhipu", "lightweight"}, paragraphs \in FusionParagraphs :
        /\ f_retriever' =
               [class |-> class, how |-> "build_index",
                paragraphs |-> [i \in 1..Len(paragraphs) |->
                                   IF class = "zhipu" THEN TextOf(paragraphs[i])
                                   ELSE DictOf(paragraphs[i])],
                disk |-> [i \in 1..Len(paragraphs) |-> TextOf(paragraphs[i])]]
        /\ f_ret' = NoFusionCall
        /\ UNCHANGED notFusion

\* load_index: self.paragraphs = data['paragraphs'], the texts of metadata.json
FusionLoadIndex ==
    /\ f_retriever.class # "none"
    /\ f_retriever' = [f_retriever EXCEPT !.how = "load_index",
                                          !.paragraphs = f_retriever.disk]
    /\ f_ret' = NoFusionCall
    /\ UNCHANGED notFusion

\* the keyword scores of hybrid_search: hits / max(len(keywords), 1), which
\* ZhipuEmbeddingRetriever then divides by their maximum when that is positive
keyword_scores(class, paragraphs, keywords) ==
    LET score(i) == Cardinality({kw \in keywords : Contains(kw, paragraphs[i])})
        raw == [i \in 1..Len(paragraphs) |->
                   (score(i) * ScoreUnit) \div (IF keywords = {} THEN 1 ELSE Cardinality(keywords))]
        max == CHOOSE m \in Range(raw) : \A x \in Range(raw) : x <= m
    IN IF class = "zhipu" /\ max > 0
       THEN [i \in 1..Len(paragraphs) |-> (raw[i] * ScoreUnit) \div max]
       ELSE raw

\* combined_scores = alpha * semantic_scores + (1 - alpha) * keyword_scores
\* (LightweightRetriever: 0.7 * tfidf_scores + 0.3 * keyword_scores)
combined_scores(alpha, semantic, keyword) ==
    [i \in 1..Len(semantic) |-> alpha * semantic[i] + (WeightUnit - alpha) * keyword[i]]

\* hybrid_search(query, top_k, alpha): the result dicts, best first
hybrid_search(retriever, query, top_k, alpha, semantic) ==
    LET keyword == keyword_scores(retriever.class, retriever.paragraphs, Range(query))
        combined == combined_scores(alpha, semantic, keyword)
        top == CHOOSE r \in Rankings(combined, top_k) : TRUE
    IN [j \in 1..Len(top) |->
           [idx |-> top[j], similarity |-> combined[top[j]],
            semantic_score |-> semantic[top[j]], keyword_score |-> keyword[top[j]]]]

HybridSearch ==
    /\ f_retriever.class # "none"
    /\ \E query \in FusionQueries, top_k \in FusionTopKs,
          alpha \in IF f_retriever.class = "zhipu" THEN Alphas ELSE {tfidf_weight},
          semantic \in SemanticScores(Len(f_retriever.paragraphs)) :
           f_ret' = [op |-> "hybrid_search", query |-> query, top_k |-> top_k,
                     alpha |-> alpha, semantic |-> semantic,
                     results |-> hybrid_search(f_retriever, query, top_k, alpha, semantic)]
    /\ UNCHANGED f_retriever
    /\ UNCHANGED notFusion

(***************************************************************************)
(* The data directory: build_all splits and compresses chunks.json,        *)
(* ExpertRetrieverV2 and TextRetriever put split files together again.     *)
(* A file is a sequence of bytes; the files of one glob pattern are kept   *)
(* as the sequence of their contents in name order.                        *)
(***************************************************************************)
\* the size of a part (split -b 30m), in bytes
PartSize == 2
\* the length of the novel text, in bytes
MaxNovel == 1

Bytes == {0, 1}
Novels == UNION {[1..n -> Bytes] : n \in 0..MaxNovel}

NoFile == [exists |-> FALSE, data |-> <<>>]
File(data) == [exists |-> TRUE, data |-> data]

\* json.dump(indexer.create_chunks(text)): the text between brackets
LeftBracket == 2
RightBracket == 3
ChunksJson(text) == <<LeftBracket>> \o text \o <<RightBracket>>

\* split -b: consecutive parts of PartSize bytes, the last one shorter; no
\* part for an empty file
SplitBytes(data) ==
    [i \in 1..((Len(data) + PartSize - 1) \div PartSize) |->
        SubSeq(data, (i - 1) * PartSize + 1, Min(i * PartSize, Len(data)))]

\* gzip -9 and gzip.open(...).read()
Gzip(data) == [codec |-> "gzip", data |-> data]
Gunzip(blob) == blob.data

\* cat f1 f2 ... > output
RECURSIVE Cat(_)
Cat(parts) == IF parts = <<>> THEN <<>> ELSE Head(parts) \o Cat(Tail(parts))

\* the files a glob pattern matched: the pattern and their number
Globbed(pattern, files) == [pattern |-> pattern, count |-> Len(files)]
NoGlob == [pattern |-> "none", count |-> 0]

NoSplit == [valid |-> FALSE, name |-> "none", data |-> <<>>, parts |-> NoGlob]
NoStoreRet == [op |-> "none", needed |-> FALSE, found |-> NoGlob, written |-> "none",
               raised |-> FALSE, split |-> NoSplit]
NoFiles == [novel |-> NoFile, chunks |-> NoFile, chunks_small_gz |-> <<>>, chunks_part |-> <<>>]

StoreIdle ==
    /\ fs_files = NoFiles
    /\ fs_ret = NoStoreRet

\* a data directory before the first build: the novel text, and perhaps a
\* chunks.json or uncompressed chunks_part_ files made from some text
StoreStart ==
    /\ \E text \in Novels, old \in Novels, have \in {"nothing", "chunks", "parts"} :
           fs_files = [novel |-> File(text),
                       chunks |-> IF have = "chunks" THEN File(ChunksJson(old)) ELSE NoFile,
                       chunks_small_gz |-> <<>>,
                       chunks_part |-> IF have = "parts" THEN SplitBytes(ChunksJson(old))
                                       ELSE <<>>]
    /\ fs_ret = NoStoreRet

\* build_index.py build_all, steps 1 to 3 (run on a novel text of at most
\* MaxNovel bytes)
BuildAll ==
    /\ Len(fs_files.novel.data) <= MaxNovel
    /\ IF ~fs_files.novel.exists
       THEN \* line 25: return
            /\ fs_ret' = [NoStoreRet EXCEPT !.op = "build_all", !.split = fs_ret.split]
            /\ UNCHANGED fs_files
            /\ UNCHANGED notStore
       ELSE LET chunks == IF fs_files.chunks.exists THEN fs_files.chunks
                          ELSE File(ChunksJson(fs_files.novel.data))
                parts == SplitBytes(chunks.data)
                compressed == [i \in 1..Len(parts) |-> Gzip(parts[i])]
            IN
            /\ fs_files' = [fs_files EXCEPT !.chunks = chunks, !.chunks_small_gz = compressed]
            /\ fs_ret' = [NoStoreRet EXCEPT !.op = "build_all",
                             !.split = [valid |-> TRUE, name |-> "chunks.json",
                                        data |-> chunks.data,
                                        parts |-> Globbed("chunks_small_*.gz", compressed)]]
            /\ UNCHANGED notStore

\* upload_compressed.py uploads the chunks_small_*.gz files only: a
\* deployment is a data directory without chunks.json, the novel text, or both
Deploy ==
    \E gone \in (SUBSET {"novel", "chunks"}) \ {{}} :
        /\ fs_files' = [fs_files EXCEPT
                           !.novel = IF "novel" \in gone THEN NoFile ELSE @,
                           !.chunks = IF "chunks" \in gone THEN NoFile ELSE @]
        /\ fs_ret' = [NoStoreRet EXCEPT !.op = "deploy", !.split = fs_ret.split]
        /\ UNCHANGED notStore

\* ExpertRetrieverV2._process_raw_data with _decompress_files
ProcessRawData ==
    LET compressed_files == fs_files.chunks_small_gz
        decompress == ~fs_files.novel.exists /\ compressed_files # <<>>
        split_files == [i \in 1..Len(compressed_files) |-> Gunzip(compressed_files[i])]
    IN
    /\ fs_files' = IF decompress
                   THEN [fs_files EXCEPT !.novel = File(Cat(split_files))]
                   ELSE fs_files
    \* "novel.txt" stands for the path of the novel text (line 82)
    /\ fs_ret' = [op |-> "process_raw_data",
                  needed |-> ~fs_files.novel.exists,
                  found |-> IF decompress THEN Globbed("chunks_small_*.gz", compressed_files)
                            ELSE NoGlob,
                  written |-> IF decompress THEN "novel.txt" ELSE "none",
                  raised |-> FALSE,
                  split |-> fs_ret.split]
    /\ UNCHANGED notStore

\* TextRetriever._load_data with _merge_split_files and _build_index
LoadData ==
    LET split_files == fs_files.chunks_part
        merge == ~fs_files.chunks.exists /\ split_files # <<>>
        build == ~fs_files.chunks.exists /\ ~merge
        raised == build /\ ~fs_files.novel.exists
    IN
    /\ fs_files' = IF merge THEN [fs_files EXCEPT !.chunks = File(Cat(split_files))]
                   ELSE IF build /\ ~raised
                   THEN [fs_files EXCEPT !.chunks = File(ChunksJson(fs_files.novel.data))]
                   ELSE fs_files
    /\ fs_ret' = [op |-> "load_data",
                  needed |-> ~fs_files.chunks.exists,
                  found |-> IF merge THEN Globbed("chunks_part_*", split_files) ELSE NoGlob,
                  written |-> IF merge \/ (build /\ ~raised) THEN "chunks.json" ELSE "none",
                  raised |-> raised,
                  split |-> fs_ret.split]
    /\ UNCHANGED notStore

(***************************************************************************)
(* app.py in API mode.  The handlers are the top-level statements of the   *)
(* script (lines 64 to 171), below the assignments of lines 31 to 33: a    *)
(* request is served by one execution of the script from its first line,   *)
(* and each of the actions below is such an execution.                     *)
(***************************************************************************)
\* the q and temp parameters of the requests: those of Requests, and one
\* request without q
ModeRequests == Requests \cup {<<"", 7>>}

\* line 31, _answer_cache = {}: the cache a run of the script starts with
script_cache == <<>>

\* line 149: the answer of the simplified ask, made from the question
mock_answer(q) == IF q = "q1" THEN "a1" ELSE "a2"

NoResponse == [action |-> "none", q |-> "", temp |-> 0, error |-> FALSE, cached |-> FALSE,
               answer |-> None, count |-> 0, at |-> 0]

ApiModeIdle == a_ret = NoResponse

\* action=health (lines 69-80) and action=stats (lines 83-92): the response
\* carries len(_answer_cache)
ModeHealth ==
    /\ a_ret' = [NoResponse EXCEPT !.action = "health", !.count = Len(script_cache), !.at = now]
    /\ answer_cache' = script_cache
    /\ UNCHANGED <<now, cache_ret, cache_live>>
    /\ UNCHANGED notApiMode

ModeStats ==
    /\ a_ret' = [NoResponse EXCEPT !.action = "stats", !.count = Len(script_cache), !.at = now]
    /\ answer_cache' = script_cache
    /\ UNCHANGED <<now, cache_ret, cache_live>>
    /\ UNCHANGED notApiMode

\* action=query (lines 103-123)
ModeQuery ==
    \E rq \in ModeRequests :
        LET q == rq[1]
            temp == rq[2]
            r == get_cached_answer(script_cache, q, temp, now)
        IN
        /\ IF q = ""
           THEN /\ a_ret' = [NoResponse EXCEPT !.action = "query", !.temp = temp,
                                               !.error = TRUE, !.at = now]
                /\ answer_cache' = script_cache
           ELSE /\ a_ret' = [NoResponse EXCEPT !.action = "query", !.q = q, !.temp = temp,
                                               !.cached = r.ret # None, !.answer = r.ret,
                                               !.count = Len(r.cache), !.at = now]
                /\ answer_cache' = r.cache
        /\ UNCHANGED <<now, cache_ret, cache_live>>
        /\ UNCHANGED notApiMode

\* action=ask (lines 125-166)
ModeAsk ==
    \E rq \in ModeRequests :
        LET q == rq[1]
            temp == rq[2]
            r == get_cached_answer(script_cache, q, temp, now)
            w == set_cached_answer(r.cache, q, temp, mock_answer(q), now)
        IN
        /\ IF q = ""
           THEN /\ a_ret' = [NoResponse EXCEPT !.action = "ask", !.temp = temp,
                                               !.error = TRUE, !.at = now]
                /\ answer_cache' = script_cache
                /\ UNCHANGED cache_live
           ELSE IF r.ret # None
           THEN /\ a_ret' = [NoResponse EXCEPT !.action = "ask", !.q = q, !.temp = temp,
                                               !.cached = TRUE, !.answer = r.ret,
                                               !.count = Len(r.cache), !.at = now]
                /\ answer_cache' = r.cache
                /\ UNCHANGED cache_live
           ELSE /\ a_ret' = [NoResponse EXCEPT !.action = "ask", !.q = q, !.temp = temp,
                                               !.cached = FALSE, !.answer = mock_answer(q),
                                               !.count = Len(w.cache), !.at = now]
                /\ answer_cache' = w.cache
                /\ cache_live' = [x \in CacheKeys |->
                                    IF x = get_cache_key(q, temp)
                                    THEN [data |-> mock_answer(q), ts |-> now]
                                    ELSE IF x \in w.evicted THEN NoEntry
                                    ELSE cache_live[x]]
        /\ UNCHANGED <<now, cache_ret>>
        /\ UNCHANGED notApiMode

\* action=cache_clear (lines 168-171)
ModeCacheClear ==
    /\ a_ret' = [NoResponse EXCEPT !.action = "cache_clear", !.at = now]
    /\ answer_cache' = <<>>
    /\ cache_live' = [k \in CacheKeys |-> NoEntry]
    /\ UNCHANGED <<now, cache_ret>>
    /\ UNCHANGED notApiMode

(***************************************************************************)
(* The specifications                                                      *)
(***************************************************************************)
CacheNext == Tick \/ GetCachedAnswer \/ SetCachedAnswer \/ CacheClear

CacheInit == CacheIdle /\ ChunkIdle /\ RetrIdle /\ IndexIdle /\ ServeIdle /\ ThreadsIdle /\ SourcesIdle /\ KeywordsIdle /\ FusionIdle /\ StoreIdle /\ ApiModeIdle

SpecCache == CacheInit /\ [][CacheNext]_vars

ChunksNext == CreateChunks

ChunksInit == ChunkStart /\ CacheIdle /\ RetrIdle /\ IndexIdle /\ ServeIdle /\ ThreadsIdle /\ SourcesIdle /\ KeywordsIdle /\ FusionIdle /\ StoreIdle /\ ApiModeIdle

SpecChunks == ChunksInit /\ [][ChunksNext]_vars

RetrieveNext == Retrieve

RetrieveInit == RetrStart /\ CacheIdle /\ ChunkIdle /\ IndexIdle /\ ServeIdle /\ ThreadsIdle /\ SourcesIdle /\ KeywordsIdle /\ FusionIdle /\ StoreIdle /\ ApiModeIdle

SpecRetrieve == RetrieveInit /\ [][RetrieveNext]_vars

SessionNext == RetrieveInSession

SessionInit == RetrStart /\ CacheIdle /\ ChunkIdle /\ IndexIdle /\ ServeIdle /\ ThreadsIdle /\ SourcesIdle /\ KeywordsIdle /\ FusionIdle /\ StoreIdle /\ ApiModeIdle

SpecSession == SessionInit /\ [][SessionNext]_vars

IndexNext == NewRetriever \/ BuildIndex \/ LoadIndex \/ LoadCompressedIndex

IndexInit == IndexStart /\ CacheIdle /\ ChunkIdle /\ RetrIdle /\ ServeIdle /\ ThreadsIdle /\ SourcesIdle /\ KeywordsIdle /\ FusionIdle /\ StoreIdle /\ ApiModeIdle

SpecIndex == IndexInit /\ [][IndexNext]_vars

SourcesNext == AddSource

SourcesInit ==
    /\ SourcesIdle /\ CacheIdle /\ ChunkIdle /\ RetrIdle /\ IndexIdle /\ ServeIdle
    /\ ThreadsIdle /\ KeywordsIdle /\ FusionIdle /\ StoreIdle /\ ApiModeIdle

KeywordsNext == BuildKeywordIndex

KeywordsInit ==
    /\ KeywordsStart /\ CacheIdle /\ ChunkIdle /\ IndexIdle /\ ServeIdle
    /\ ThreadsIdle /\ SourcesIdle /\ FusionIdle /\ StoreIdle /\ ApiModeIdle

SpecKeywords == KeywordsInit /\ [][KeywordsNext]_vars

SpecSources == SourcesInit /\ [][SourcesNext]_vars

CacheMTNext ==
    \/ ThreadCall
    \/ GetLookup
    \/ GetRead
    \/ GetCompare
    \/ GetDelete
    \/ SetIterate
    \/ SetDeleteExpired
    \/ SetCheckSize
    \/ SetFindOldest
    \/ SetDeleteOldest
    \/ SetStore
    \/ ClearStep
    \/ ClockTick

CacheMTInit == ThreadsIdle /\ CacheIdle /\ ChunkIdle /\ RetrIdle /\ IndexIdle /\ ServeIdle /\ SourcesIdle /\ KeywordsIdle /\ FusionIdle /\ StoreIdle /\ ApiModeIdle

SpecCacheMT == CacheMTInit /\ [][CacheMTNext]_vars

ServeNext ==
    \/ InitSystem
    \/ SystemRetrieve
    \/ SystemGetContext
    \/ SystemAnswer
    \/ AISemanticSearch
    \/ AIBuildContext

ServeInit == ServeStart /\ CacheIdle /\ ChunkIdle /\ RetrIdle /\ IndexIdle /\ ThreadsIdle /\ SourcesIdle /\ KeywordsIdle /\ FusionIdle /\ StoreIdle /\ ApiModeIdle

SpecServe == ServeInit /\ [][ServeNext]_vars

ApiNext ==
    \/ InitSystem
    \/ ApiQuery
    \/ ApiSearch
    \/ SystemGetContext

ApiInit == ServeStart /\ CacheIdle /\ ChunkIdle /\ RetrIdle /\ IndexIdle /\ ThreadsIdle /\ SourcesIdle /\ KeywordsIdle /\ FusionIdle /\ StoreIdle /\ ApiModeIdle

SpecApi == ApiInit /\ [][ApiNext]_vars

SearchNext ==
    \/ InitSystem
    \/ SystemRetrieve
    \/ SemanticV2Search

SearchInit == ServeStart /\ CacheIdle /\ ChunkIdle /\ RetrIdle /\ IndexIdle /\ ThreadsIdle /\ SourcesIdle /\ KeywordsIdle /\ FusionIdle /\ StoreIdle /\ ApiModeIdle

SpecSearch == SearchInit /\ [][SearchNext]_vars

FusionNext == FusionBuildIndex \/ FusionLoadIndex \/ HybridSearch

FusionInit == FusionIdle /\ CacheIdle /\ ChunkIdle /\ RetrIdle /\ IndexIdle /\ ServeIdle /\ ThreadsIdle /\ SourcesIdle /\ KeywordsIdle /\ StoreIdle /\ ApiModeIdle

SpecFusion == FusionInit /\ [][FusionNext]_vars

StoreNext == BuildAll \/ Deploy \/ ProcessRawData \/ LoadData

StoreInit == StoreStart /\ CacheIdle /\ ChunkIdle /\ RetrIdle /\ IndexIdle /\ ServeIdle /\ ThreadsIdle /\ SourcesIdle /\ KeywordsIdle /\ FusionIdle /\ ApiModeIdle

SpecStore == StoreInit /\ [][StoreNext]_vars

ApiModeNext == Tick \/ ModeHealth \/ ModeStats \/ ModeQuery \/ ModeAsk \/ ModeCacheClear

ApiModeInit == CacheIdle /\ ApiModeIdle /\ ChunkIdle /\ RetrIdle /\ IndexIdle /\ ServeIdle /\ ThreadsIdle /\ SourcesIdle /\ KeywordsIdle /\ FusionIdle /\ StoreIdle

SpecApiMode == ApiModeInit /\ [][ApiModeNext]_vars

(***************************************************************************)
(* Claims about the segmenter (checked under SpecChunks)                   *)
(***************************************************************************)

\* the chunk contents in order, each follow-on chunk without the overlap
\* text seeded at its head
RECURSIVE Reconstruct(_, _, _)
Reconstruct(chunks, seeds, i) ==
    IF i > Len(chunks)
    THEN <<>>
    ELSE SubSeq(chunks[i].content, seeds[i] + 1, Len(chunks[i].content))
            \o Reconstruct(chunks, seeds, i + 1)

\* C1 - segmentation coverage: the chunk contents, concatenated in order with
\* the overlap duplication removed, are the chapter body (no character of it
\* is dropped).
C1_SegmentationCoverage ==
    chunk_pc = "done" =>
        Reconstruct(chunk_out, chunk_seed, 1) = Strip(chunk_in[1].content)

\* the sentences create_chunks takes from the chapter: every second piece
TakenSentences(content) ==
    LET sents == Sentences(Strip(content)) IN
    {sents[i] : i \in {j \in 1..Len(sents) : j % 2 = 1}}

\* C12 - every chunk has at most chunk_size characters, unless it is a single
\* sentence (no overlap text at its head) that alone exceeds chunk_size.
C12_ChunkSizeBounded ==
    chunk_pc = "done" =>
        \A i \in 1..Len(chunk_out) :
            \/ Len(chunk_out[i].content) <= chunk_size
            \/ /\ chunk_seed[i] = 0
               /\ chunk_out[i].content \in TakenSentences(chunk_in[1].content)

\* C13 - the overlap text seeded into a chunk is at most `overlap` characters
\* long, and is no longer than the overlap text of the chunk before it
\* (the first chunk of a chapter has none).
C13_OverlapBounded ==
    chunk_pc = "done" =>
        \A i \in 2..Len(chunk_out) :
            /\ chunk_seed[i] <= overlap
            /\ i > 2 => chunk_seed[i] <= chunk_seed[i - 1]

(***************************************************************************)
(* Claims about MultiSourceIndexer (checked under SpecSources)             *)
(***************************************************************************)

\* C14 - chunk ids are assigned in emission order as a strictly increasing
\* numeric sequence over all add_source calls, so no two chunks, of the same
\* or of different sources, share an id.
C14_ChunkIdsIncreasing ==
    /\ \A i \in 1..Len(ms_chunks) : ms_chunks[i].id = i - 1
    /\ \A i, j \in 1..Len(ms_chunks) : i < j => ms_chunks[i].id < ms_chunks[j].id

\* Two sources added, each of which produced more than one chunk.
C14_Witness ==
    /\ Len(ms_sources) >= 2
    /\ \E i, j \in 1..Len(ms_chunks) :
           /\ j > i + 1
           /\ ms_chunks[i].source_id = 1 /\ ms_chunks[i + 1].source_id = 1
           /\ ms_chunks[j].source_id = 2 /\ ms_chunks[j - 1].source_id = 2

(***************************************************************************)
(* Claims about the keyword index build (checked under SpecKeywords)       *)
(***************************************************************************)

\* C15 - in the mapping _build_keyword_index returns, every id listed under
\* a token is the id of a chunk of the collection, and no id occurs twice
\* under the same token.
C15_KeywordIndexSound ==
    k_hist.builds >= 1 =>
        \A w \in DOMAIN r_index :
            /\ \A i \in 1..Len(r_index[w]) :
                   \E c \in 1..Len(r_chunks) : r_chunks[c].id = r_index[w][i]
            /\ \A i, j \in 1..Len(r_index[w]) : i # j => r_index[w][i] # r_index[w][j]

\* An index built over a chunk in which an indexed word occurs twice.
C15_Witness ==
    /\ k_hist.builds >= 1
    /\ \E w \in DOMAIN r_index, c \in 1..Len(r_chunks) :
           /\ r_chunks[c].id \in Range(r_index[w])
           /\ Len(SelectSeq(r_chunks[c].content, LAMBDA x : x = w)) = 2

\* the set of ids each token maps to
IdSets(index) == [w \in DOMAIN index |-> Range(index[w])]

C2_RankedStable ==
    r_call # NoCall =>
        /\ Len(r_results) <= r_call.top_k
        /\ \A i, j \in 1..Len(r_results) :
              i < j => /\ r_results[i].score >= r_results[j].score
                       /\ r_results[i].score = r_results[j].score
                              => r_results[i].id < r_results[j].id

RECURSIVE KeywordPoints(_, _, _)
KeywordPoints(kws, chunk, index) ==
    IF kws = <<>>
    THEN 0
    ELSE LET kw == Head(kws) IN
         (IF kw \in DOMAIN index /\ chunk.id \in Range(index[kw]) THEN 3 ELSE 0)
             + (IF kw \in Range(chunk.content) THEN 2 ELSE 0)
             + (IF kw \in Range(chunk.chapter) THEN 5 ELSE 0)
             + KeywordPoints(Tail(kws), chunk, index)

\* C26 - the score of every chunk retrieve returns is: per query keyword 3
\* for an index hit, 2 for a content hit and 5 for a title hit; 4 for each
\* important name found both in the query and in the chunk; 10 when the
\* whole query is found in the content.
C26_ScoreWeights ==
    \A r \in 1..Len(r_results) :
        \A i \in 1..Len(r_chunks) :
            r_chunks[i].id = r_results[r].id =>
                LET chunk == r_chunks[i]
                    query == r_call.query
                    kept == SelectSeq(query, LAMBDA w : w \notin StopWords)
                    names == {name \in Range(ImportantNames) :
                                 /\ name \in Range(query)
                                 /\ name \in Range(chunk.content) \cup Range(chunk.chapter)}
                IN r_results[r].score =
                       KeywordPoints(IF kept = <<>> THEN query ELSE kept, chunk, r_index)
                           + 4 * Cardinality(names)
                           + (IF SubstringIn(query, chunk.content) THEN 10 ELSE 0)

\* a chunk returned with the index and content hits of two keywords, the
\* title hit of one, the name bonus and the whole-query bonus
C26_Witness ==
    /\ r_call.query = <<"xu", "tower">>
    /\ Len(r_results) >= 1
    /\ r_results[1].score = (3 + 2) + (3 + 2 + 5) + 4 + 10

(***************************************************************************)
(* Claims about the answer cache (checked under SpecCache)                 *)
(***************************************************************************)

\* C8 - Cache TTL: a lookup of a key whose last store (answer, T) has not been
\* cleared or evicted for capacity returns that answer at every time before
\* T + TTL and returns nothing at every time at or after T + TTL.
C8_CacheTTL ==
    (cache_ret.op = "get" /\ cache_live[cache_ret.key] # NoEntry) =>
        LET g == cache_live[cache_ret.key] IN
        IF cache_ret.at < g.ts + cache_ttl
        THEN cache_ret.ret = g.data
        ELSE cache_ret.ret = None

\* A lookup exactly at T + TTL of a stored entry, which misses.
C8_Witness ==
    /\ cache_ret.op = "get"
    /\ cache_live[cache_ret.key] # NoEntry
    /\ cache_ret.at = cache_live[cache_ret.key].ts + cache_ttl
    /\ cache_ret.ret = None

\* C9 - the number of cached entries never exceeds _cache_max_size.
C9_CacheBounded == Len(answer_cache) <= cache_max_size

\* An insert into a full cache that evicted an entry and left the cache full.
C9_Witness ==
    /\ cache_ret.op = "set"
    /\ cache_ret.evicted # {}
    /\ Len(answer_cache) = cache_max_size

\* C10 - eviction policy of an insert of key k at time t: every entry older
\* than the TTL is removed; of the remaining (unexpired) entries exactly one,
\* one with the oldest timestamp, is removed when holding them together with k
\* would exceed the capacity, and none is removed otherwise (in particular
\* when k is already present).
C10_EvictionPolicy ==
    [][cache_ret'.op = "set" =>
        LET pre   == Range(answer_cache)
            post  == {e.key : e \in Range(answer_cache')}
            t     == cache_ret'.at
            k     == cache_ret'.key
            old   == {e \in pre : t - e.ts > cache_ttl}
            keep  == pre \ old
            gone  == {e \in keep : e.key \notin post}
            need  == Cardinality({e.key : e \in keep} \cup {k}) > cache_max_size
        IN /\ \A e \in old : e.key # k => e.key \notin post
           /\ IF need
              THEN \E e \in keep : gone = {e} /\ \A f \in keep : e.ts <= f.ts
              ELSE gone = {}
    ]_vars

(***************************************************************************)
(* Claims about the embedding index (checked under SpecIndex)              *)
(***************************************************************************)

\* C3 - Round-trip persistence: load_index on the directory build_index wrote
\* yields an in-memory index with the paragraph count, the metadata count and
\* the matrix shape the index had when build_index saved it.
C3_RoundTrip ==
    (z_ret.op = "load" /\ ~z_ret.raised /\ d_saved.valid) =>
        MemShape(z_embeddings, z_paragraphs, z_metadata) = d_saved

\* A load of an index of more than one batch that build_index saved.
C3_Witness ==
    /\ z_ret.op = "load"
    /\ ~z_ret.raised
    /\ d_saved.valid
    /\ d_saved.rows > batch_size
    /\ Len(z_paragraphs) = d_saved.rows

\* the three counts of an index shape agree
CountsAgree(shape) ==
    /\ shape.rows = shape.paragraphs
    /\ shape.rows = shape.metadata

\* C4 - a load of persisted files whose row, metadata and paragraph counts do
\* not all agree raises: load_index never completes with mismatched counts in
\* memory, and load_compressed_index never returns an index with mismatched
\* counts.
C4_LoadRejectsMismatch ==
    /\ (z_ret.op = "load" /\ ~z_ret.raised) =>
           CountsAgree(MemShape(z_embeddings, z_paragraphs, z_metadata))
    /\ (z_ret.op = "load_compressed" /\ z_ret.value.valid) =>
           CountsAgree(z_ret.value)

\* C6 - a build_index in which a request to the provider fails raises and
\* writes neither the vector file nor the metadata file.
C6_FailedBatchAbortsBuild ==
    [][(z_ret'.op = "build" /\ z_ret'.failed) =>
           /\ z_ret'.raised
           /\ d_emb' = d_emb
           /\ d_meta' = d_meta
    ]_vars

\* A build whose first request succeeded and whose second failed, with the
\* index of an earlier build still on disk.
C6_Witness ==
    /\ z_ret.op = "build"
    /\ z_ret.failed
    /\ z_ret.raised
    /\ Len(z_ret.requests) = 2
    /\ d_saved.valid
    /\ d_saved.rows # Len(z_paragraphs)

RECURSIVE Flatten(_)
Flatten(ss) == IF ss = <<>> THEN <<>> ELSE Head(ss) \o Flatten(Tail(ss))

\* C7 - for N texts get_zhipu_embedding sends consecutive requests of at most
\* 8 texts each and returns N vectors, vector i being the embedding of
\* texts[i], in whatever order the provider lists the items of a response.
C7_BatchedInOrder ==
    (z_ret.op = "build" /\ ~z_ret.failed) =>
        /\ \A k \in 1..Len(z_ret.requests) :
               Len(z_ret.requests[k]) \in 1..8
        /\ Flatten(z_ret.requests) = z_paragraphs
        /\ Len(z_embeddings.rows) = Len(z_paragraphs)
        /\ \A i \in 1..Len(z_paragraphs) :
               z_embeddings.rows[i] = Emb(z_paragraphs[i])

\* A call for more than 8 texts, answered in two responses of which one lists
\* its items out of index order.
C7_Witness ==
    /\ z_ret.op = "build"
    /\ ~z_ret.failed
    /\ z_ret.reordered
    /\ Len(z_ret.requests) = 2
    /\ Len(z_embeddings.rows) > 8

\* C18 - load_index by a retriever configured for another model or vector
\* width than the ones recorded in the persisted index raises: a load that
\* completes on an index written by build_index has found the model and the
\* dimension of the retriever.
C18_LoadRejectsOtherModel ==
    (z_ret.op = "load" /\ ~z_ret.raised /\ d_meta.model \in Models) =>
        /\ d_meta.model = z_model
        /\ d_meta.dimension = Dimension(z_model)

\* C19 - load_compressed_index reads either layout: expanded files that are
\* there and readable are what it returns; otherwise it returns the tuple of
\* the archive (the default metadata where the archive has none) however the
\* write of the expansion ends, and a completed write leaves that tuple in
\* the expanded files; the load that follows a load of the archive returns
\* the same tuple, from the expanded files when the write completed.
C19_EitherLayout ==
    [][LoadCompressedIndex =>
        LET expanded == d_emb.exists /\ d_meta.exists /\ d_meta.parses
            archive == Result(c_emb,
                              IF c_texts.exists THEN c_texts.list ELSE <<>>,
                              IF c_meta.exists THEN c_meta.list
                              ELSE [i \in 1..(IF c_texts.exists THEN Len(c_texts.list) ELSE 0) |->
                                       [idx |-> i - 1]])
        IN
        /\ expanded =>
            /\ z_ret'.path = "expanded"
            /\ z_ret'.result = Result(d_emb, d_meta.paragraphs, d_meta.metadata)
        /\ (~expanded /\ c_emb.exists) =>
            /\ z_ret'.path = "compressed"
            /\ z_ret'.result = archive
            /\ z_ret'.expansion = "all" =>
                Result(d_emb', d_meta'.paragraphs, d_meta'.metadata) = archive
        /\ (z_ret.op = "load_compressed" /\ z_ret.path = "compressed") =>
            /\ z_ret'.result = z_ret.result
            /\ z_ret.expansion = "all" => z_ret'.path = "expanded"]_vars

\* a load from the expanded files right after the load of an archive of at
\* least one paragraph that wrote them
C19_Witness ==
    /\ z_ret.op = "load_compressed"
    /\ z_ret.path = "expanded"
    /\ z_ret.result.embeddings = c_emb
    /\ Len(z_ret.result.paragraphs) > 0
    /\ d_meta.model = ""

\* C29 - after every build_index and load_index, the failed ones included,
\* the in-memory index has as many vector rows (none while embeddings is
\* None) as paragraphs and as metadata records; and a build_index in which a
\* request to the provider fails leaves paragraphs, metadata and embeddings
\* as they were before the call.
C29_MemoryConsistent ==
    /\ [](z_ret.op \in {"build", "load"} =>
              CountsAgree(MemShape(z_embeddings, z_paragraphs, z_metadata)))
    /\ [][(z_ret'.op = "build" /\ z_ret'.failed) =>
              /\ z_paragraphs' = z_paragraphs
              /\ z_metadata' = z_metadata
              /\ z_embeddings' = z_embeddings]_vars

(***************************************************************************)
(* Claims about query serving (checked under SpecServe)                    *)
(***************************************************************************)

\* C5 - with the semantic retriever active, a call whose query embedding
\* fails does not raise, and what it returns is not labelled as semantic
\* retrieval.
C5_EmbeddingFailureFallsBack ==
    (s_use_semantic /\ s_ret.provider \in ProviderErrors) =>
        /\ ~s_ret.raised
        /\ s_ret.mode # "semantic"

\* C17 - without an embedding-provider key the system initialises with the
\* TF-IDF retriever, whatever index is on disk: use_semantic is false, a
\* retrieve over a non-empty index returns results without raising, and no
\* response is labelled semantic; use_semantic is true only with a key
\* configured and the semantic index loaded.
C17_DegradedMode ==
    /\ (~s_env.key /\ s_retriever # "none") =>
           /\ s_retriever = "tfidf"
           /\ ~s_use_semantic
           /\ s_ret.mode # "semantic"
           /\ (s_ret.op = "retrieve" /\ s_paragraphs # <<>>) =>
                  ~s_ret.raised /\ s_ret.results # <<>>
    /\ s_use_semantic => s_env.key /\ s_env.zhipu_index /\ s_env.load

\* An answer given without a key while a loadable semantic index is on disk.
C17_Witness ==
    /\ ~s_env.key
    /\ s_env.zhipu_index
    /\ s_env.load
    /\ s_ret.op = "answer"
    /\ s_ret.success
    /\ s_ret.mode = "tfidf"
    /\ s_ret.results # <<>>

\* C20 - provider errors are classified: the query embedding request that
\* times out is sent again (more than once, a bounded number of times)
\* before the call fails, and the one that is refused for its key is sent
\* once.
C20_RetryableRetried ==
    /\ s_ret.provider \in RetryableErrors => s_ret.attempts > 1
    /\ s_ret.provider \in TerminalErrors => s_ret.attempts = 1

\* C21 - a failure while answering comes back as a failure object: neither
\* ExpertSystemV2.answer nor the /query handler raises, and a call in which
\* the retrieval or the generation failed returns success = false with an
\* error message.
C21_FailuresAreStructured ==
    s_ret.op \in {"answer", "query"} =>
        /\ ~s_ret.raised
        /\ (s_ret.provider \in ProviderErrors \/ s_ret.provider2 \in ProviderErrors
                \/ s_ret.llm = "fail") => (~s_ret.success /\ s_ret.error)

\* C22 - a /query whose retrievals succeed and whose generation call fails
\* answers success = false with an error message and the context assembled
\* from the paragraphs retrieved; get_context and /search make no generation
\* call.
C22_PartialResults ==
    /\ (s_ret.op = "query" /\ s_ret.llm = "fail" /\ s_ret.provider \notin ProviderErrors
            /\ s_ret.provider2 \notin ProviderErrors) =>
           /\ ~s_ret.success
           /\ s_ret.error
           /\ s_ret.context = system_get_context(s_paragraphs, s_ret.query, s_ret.results)
           /\ Len(s_ret.results) = Min(s_ret.top_k, Len(s_paragraphs))
    /\ s_ret.op \in {"get_context", "search"} => s_ret.llm = "unused"

\* a /query whose generation failed and whose response lists a passage
C22_Witness ==
    /\ s_ret.op = "query"
    /\ s_ret.llm = "fail"
    /\ ~s_ret.success
    /\ \E i \in 1..Len(s_ret.context) : s_ret.context[i].kind = "passage"

\* C24 - in an assembled context the knowledge lines emitted for a character
\* named in the query come before the passages, and the passages are listed
\* in rank order, each with its rank and its chapter.
C24_KnowledgeBeforePassages ==
    (s_ret.op \in {"get_context", "build_context"} /\ ~s_ret.raised) =>
        LET parts == s_ret.context
            passages == {i \in 1..Len(parts) : parts[i].kind = "passage"}
            knowledge == {i \in 1..Len(parts) : parts[i].kind = "knowledge_entry"}
        IN
        /\ \A k \in knowledge, i \in passages : k < i
        /\ \A i, j \in passages : i < j => parts[i].rank < parts[j].rank
        /\ \A i \in passages :
               /\ parts[i].rank \in 1..Len(s_ret.results)
               /\ parts[i].para = s_ret.results[parts[i].rank]
               /\ parts[i].chapter = s_paragraphs[parts[i].para].chapter

\* C25 - a vector search with top_k >= 1 over N rows whose query was embedded
\* returns min(top_k, N) results, by similarity, highest first, no row twice,
\* no row left out that is more similar than one returned, each result with
\* the similarity, the content and the chapter of its own row.
C25_TopKBySimilarity ==
    (s_ret.op \in {"retrieve", "v2_search"} /\ s_ret.top_k >= 1
         /\ s_ret.provider \notin ProviderErrors) =>
        LET sim == Similarity(s_paragraphs, s_ret.query)
            N == Len(s_paragraphs)
            items == s_ret.items
            m == Len(items)
        IN
        /\ ~s_ret.raised
        /\ m = Min(s_ret.top_k, N)
        /\ \A i, j \in 1..m :
               i < j => /\ items[i].similarity >= items[j].similarity
                        /\ items[i].idx # items[j].idx
        /\ \A x \in 1..N :
               (\A i \in 1..m : items[i].idx # x - 1) =>
                   \A i \in 1..m : sim[x] <= items[i].similarity
        /\ \A i \in 1..m :
               /\ items[i].idx + 1 \in 1..N
               /\ items[i].similarity = sim[items[i].idx + 1]
               /\ items[i].content = s_paragraphs[items[i].idx + 1].content
               /\ items[i].chapter = s_paragraphs[items[i].idx + 1].chapter


(***************************************************************************)
(* Claims about the cache under threads (checked under SpecCacheMT)        *)
(***************************************************************************)

\* C11 - in every interleaving of the steps of the cache functions run by
\* the threads, no call ends with an exception and the cache never holds
\* more than _cache_max_size entries.
C11_ConcurrentCacheSafe ==
    /\ \A t \in Threads : th[t].error = ""
    /\ Len(answer_cache) <= cache_max_size

(***************************************************************************)
(* Claims about hybrid_search (checked under SpecFusion)                   *)
(***************************************************************************)

\* the number of query tokens found in the text of paragraph i
TextHits(i) ==
    Cardinality({kw \in Range(f_ret.query) : kw \in f_retriever.paragraphs[i].content})

C28_SplitRoundTrip ==
    (/\ fs_ret.op \in {"process_raw_data", "load_data"}
     /\ fs_ret.needed
     /\ fs_ret.split.valid) =>
        /\ fs_ret.found = fs_ret.split.parts
        /\ fs_ret.written = fs_ret.split.name
        /\ fs_files.chunks = File(fs_ret.split.data)

(***************************************************************************)
(* Claims about app.py in API mode (checked under SpecApiMode)             *)
(***************************************************************************)

\* C30 - an ask or a query for a (q, temp) whose last stored answer was not
\* cleared or evicted for capacity since, made before the TTL of that store
\* has elapsed, reports cached = true, and the ask returns the stored answer;
\* an ask or a query for a (q, temp) with no such store reports cached =
\* false; an ask that misses leaves its answer in the cache; health, stats
\* and query add no entry to the cache.
C30_AnswerCacheFlow ==
    [][/\ (a_ret'.action \in {"ask", "query"} /\ ~a_ret'.error) =>
            LET g == cache_live[get_cache_key(a_ret'.q, a_ret'.temp)] IN
            /\ (g # NoEntry /\ now < g.ts + cache_ttl) =>
                   /\ a_ret'.cached
                   /\ a_ret'.action = "ask" => a_ret'.answer = g.data
            /\ g = NoEntry => ~a_ret'.cached
       /\ (a_ret'.action = "ask" /\ ~a_ret'.error /\ ~a_ret'.cached) =>
            /\ CacheHas(answer_cache', get_cache_key(a_ret'.q, a_ret'.temp))
            /\ CacheAt(answer_cache', get_cache_key(a_ret'.q, a_ret'.temp)).data = a_ret'.answer
       /\ a_ret'.action \in {"health", "stats", "query"} =>
            \A e \in Range(answer_cache') : CacheHas(answer_cache, e.key)
      ]_vars

====
